---------------------------- MODULE Spec2Model ----------------------------
(***************************************************************************)
(* The session layer of necromancer (client for the ATEM switcher control  *)
(* protocol): AtemReceiver of necromancer/src/controller.rs and the packet *)
(* helpers of necromancer_protocol/src/packet.rs.                          *)
(*                                                                         *)
(* The session task's fields are the variables.  Every handler of the      *)
(* task (initialise, handle_queued_command, handle_incoming_packet, the    *)
(* retransmit tick) is one action; a handler's code is an operator from    *)
(* the fields before the call to the set of possible fields after it.      *)
(* Time is counted in quanta; an Instant is modelled by the time elapsed   *)
(* since it, saturated at the largest duration it is compared with.        *)
(***************************************************************************)
EXTENDS Integers, Sequences, FiniteSets, TLC

\* Quanta of time in one RETRANSMIT_TIME.
TickQuanta == 1
\* Calls of initialise() in one behaviour.
MaxConnects == 2
\* How far ahead of next_pkt_forward the peer's sender_packet_id may be.
IdWindow == 2
\* Packets, commands and ticks in one behaviour of a session that is
\* followed from its construction.
ConnRecv == 3
ConnCmds == 1
ConnTicks == 1
\* Packets and ticks in one behaviour of a session that receives.
RxRecv == 3
RxTicks == 4
\* Commands, packets and ticks in one behaviour of a session that sends.
TxCmds == 2
TxRecv == 1
TxTicks == 4
\* Commands and packets in one behaviour of a session that sends, within
\* one interval of the retransmit timer.
WrapCmds == 3
WrapRecv == 2
\* Packets and ticks in one behaviour of a session that may end and be
\* established again.
LinkRecv == 2
LinkTicks == 1
\* Packets and ticks in one behaviour of a session that is left to itself.
ClockRecv == 2
ClockTicks == 6
\* Packets, commands and ticks in one behaviour of a session that sends
\* and may end and be established again.
OutageRecv == 2
OutageCmds == 2
OutageTicks == 1
\* Lock requests and packets in one behaviour of a session whose
\* application takes storage locks.
LockCmds == 2
LockRecv == 1
\* A session that holds a storage lock while it reconnects.
RelockRecv == 3
RelockTicks == 1
\* Transfer atoms that meet no transfer.
StrayRecv == 2
\* Packets of chunk-params, and the atoms one of them may carry.
ParamsRecv == 2
MaxParams == 17
\* A session that is lost and established again: packets, ticks, and
\* calls of initialise().
AgainRecv == 3
AgainTicks == 1
AgainConnects == 3
\* The rounds of chunk-params of one upload.
RoundsRecv == 2
\* A reconnecting session whose peer has a firmware that is refused.
RefuseRecv == 2
RefuseTicks == 1
\* The upload of an encoded stream: the items of the stream and the
\* chunk-params of the peer.
ChunkItems == 2
ChunkRecv == 1
\* The packets of the peer around the end of its id space, and how far
\* from next_pkt_forward their ids are.
EdgeRecv == 3
EdgeWindow == 2
\* An upload after its first burst: the chunks that are left, the peer's
\* packets and the ticks of the retransmit timer.
UploadRest == 2
UploadRecv == 1
UploadTicks == 1

(***************************************************************************)
(* Program constants.                                                      *)
(***************************************************************************)
U16 == 65536
MAX_PACKET_ID == 32767
MAX_ACK_QUEUE_LENGTH == 512
OVERFLOW_MARGIN == MAX_PACKET_ID - MAX_ACK_QUEUE_LENGTH
RETRANSMIT_LIMIT == 3
MAX_RX_QUEUE_LENGTH == 64
RX_QUEUE_OVERFLOW_MARGIN == MAX_PACKET_ID - MAX_RX_QUEUE_LENGTH
\* Durations, in milliseconds.
RETRANSMIT_TIME == 500
MAX_RX_QUEUE_TIME == 2000
INIT_TIMEOUT == 1000
RECONNECT_DELAY == 1000
\* Stamps and masks of the handshake.
SESSION_HIGH_BIT == 32768
MAX_INITIAL_SESSION_ID == 32767
\* The sender_packet_id after which forward_rx_queue goes on with 0.
LAST_FORWARD_ID == 32767
CONNECT_CLIENT_PACKET_ID == 177
INIT_ACK_CLIENT_PACKET_ID == 212
\* Depth of the command channel.
COMMAND_CHANNEL_SIZE == 16
\* Depth of the channel of upload_chunk_params_tx.
UPLOAD_CHUNK_PARAMS_SIZE == 16
\* The chunks a worker of an upload sends before it waits for their acks.
UPLOAD_BURST_SIZE == 24
\* TransferChunk::MAX_PAYLOAD_LENGTH
TRANSFER_CHUNK_MAX_PAYLOAD_LENGTH == 2016

\* A duration in quanta.
Quanta(ms) == (ms * TickQuanta) \div RETRANSMIT_TIME

Min(a, b) == IF a < b THEN a ELSE b

\* u16 arithmetic.
WrapU16(n) == n % U16

\* The session id as the switcher gave it, the high bit not set.
KeepSessionId(sid) == sid

\* session_id | 0x8000
OrHighBit(sid) == IF sid >= SESSION_HIGH_BIT THEN sid ELSE sid + SESSION_HIGH_BIT

(***************************************************************************)
(* slice::partition_point / VecDeque::partition_point: the index of the    *)
(* first element for which the predicate is false, when the sequence is    *)
(* partitioned by it (the predicate holds for a prefix and for nothing     *)
(* after); otherwise the result is unspecified, some index in 0..len.      *)
(***************************************************************************)
\* holds[i] tells whether the predicate holds for the i-th element.
PrefixLen(holds) ==
    Cardinality({i \in 1..Len(holds) : \A j \in 1..i : holds[j]})

IsPartitioned(holds) ==
    \A i \in 1..Len(holds) : i > PrefixLen(holds) => ~holds[i]

PartitionPoints(holds) ==
    IF IsPartitioned(holds) THEN {PrefixLen(holds)} ELSE 0..Len(holds)

\* VecDeque::insert(idx, x), idx counted from 0.
InsertAt(q, idx, x) == SubSeq(q, 1, idx) \o <<x>> \o SubSeq(q, idx + 1, Len(q))

\* VecDeque::remove(idx), idx counted from 0.
RemoveAt(q, idx) == SubSeq(q, 1, idx) \o SubSeq(q, idx + 2, Len(q))

(***************************************************************************)
(* Packets (AtemPacket).  flags is the set of the flags that are set.      *)
(* control is "None" for a packet without a control payload;              *)
(* control_arg is the session_id of AtemControl::ConnectAck, and 0 in      *)
(* every other packet.                                                     *)
(***************************************************************************)
Packet(flags, session, acked, client, sender, control, atoms) ==
    [flags |-> flags, session_id |-> session, acked_packet_id |-> acked,
     client_packet_id |-> client, sender_packet_id |-> sender,
     control |-> control, control_arg |-> 0, atoms |-> atoms]

\* AtemPacket::new: no payload, the control flag cleared.
NewPacket(flags, session, acked, client, sender) ==
    Packet(flags \ {"control"}, session, acked, client, sender, "None", <<>>)

\* AtemPacket::new_control: the control flag set.
NewControl(flags, session, acked, client, sender, control) ==
    Packet(flags \cup {"control"}, session, acked, client, sender, control, <<>>)

\* AtemControl::ConnectAck { session_id } in a control packet.
ConnectAck(session, sender, sid) ==
    [NewControl({}, session, 0, 0, sender, "ConnectAck") EXCEPT
        !.control_arg = sid]

\* AtemPacket::new_atoms: the control flag cleared.
NewAtoms(flags, session, acked, client, sender, atoms) ==
    Packet(flags \ {"control"}, session, acked, client, sender, "None", atoms)

\* AtemPacket::has_atoms
HasAtoms(p) == p.control = "None" /\ Len(p.atoms) > 0

Atom(kind, id) == [kind |-> kind, id |-> id]

RECURSIVE TransferAcks(_)
\* One TransferAck per TransferChunk atom, in order.
TransferAcks(atoms) ==
    IF atoms = <<>> THEN <<>>
    ELSE (IF Head(atoms).kind = "TransferChunk"
          THEN <<Atom("TransferAck", Head(atoms).id)>> ELSE <<>>)
         \o TransferAcks(Tail(atoms))

\* A make_ack that returns None for every packet.
MakeNoAck(p) == <<>>

\* AtemPacket::make_ack: <<>> for None, <<ack>> for Some(ack).
MakeAck(p) ==
    IF "ack" \in p.flags
    THEN LET acks == IF p.control = "None" THEN TransferAcks(p.atoms) ELSE <<>>
         IN  <<Packet((IF acks # <<>> THEN {"ack"} ELSE {}) \cup {"response"},
                      p.session_id, p.sender_packet_id, 0, 0, "None", acks)>>
    ELSE <<>>

(***************************************************************************)
(* The state.                                                              *)
(***************************************************************************)
VARIABLES
    task,                    \* where the session task is: "new", "handshake",
                             \* "main_loop", "reconnect_wait", "done"
    reconnect,               \* AtemReceiver::reconnect
    session_id,              \* AtemReceiver::session_id
    initial_session_id,      \* the local of initialise()
    rx_queue,                \* AtemReceiver::rx_queue
    last_rx_time,            \* quanta elapsed since AtemReceiver::last_rx_time
    next_pkt_forward,        \* AtemReceiver::next_pkt_forward
    sender_packet_id,        \* AtemReceiver::sender_packet_id
    ack_queue,               \* AtemReceiver::ack_queue
    initialisation_complete, \* AtemReceiver::initialisation_complete
    disconnected,            \* AtemReceiver::disconnected
    timer,                   \* quanta elapsed of the running timer: the
                             \* retransmit interval, INIT_TIMEOUT or
                             \* RECONNECT_DELAY
    connect_result,          \* what connect_udp's initialise() returned
    loop_result,             \* what the last main_loop() returned
    wire,                    \* every packet sent to the peer, in order
    forwarded,               \* every packet sent to the state mirror, in order
    responses,               \* every responder result, in order
    facade,                  \* the application's AtemController: "none"
                             \* while connect_udp has not returned it,
                             \* "initialised" when the state task has sent
                             \* connect_udp its signal, "alive", "dropped"
    cmd_rx,                  \* what is in the command channel
    selecting,               \* main_loop() waits in its select!
    clock_tasks,             \* the probes whose task of request_clock()
                             \* waits for the result
    tx,                      \* what is in the channel to the state task
    state_task,              \* the state task: "none", "running", "failed"
                             \* (it returned an error), "aborted"
    state,                   \* the state mirror (AtemState)
    storage_locks,           \* AtemReceiver::storage_locks
    owned_storage_locks,     \* AtemReceiver::owned_storage_locks: the pairs
                             \* <<store_id, h>>, h being the StorageLock
                             \* the Weak points to
    locks,                   \* every StorageLock that was created, in
                             \* order: its store_id and its waiters
    held,                    \* the pairs <<n, h>>: the caller of request n
                             \* holds an Arc of StorageLock h
    unlock_tasks,            \* the store_ids of the tasks that
                             \* StorageLock::drop has spawned
    uploads,                 \* AtemReceiver::uploads: the requests, each
                             \* with the id it is the value of
    finished_uploads,        \* AtemReceiver::finished_uploads: the pairs
                             \* of responder and storage_lock, each with
                             \* the id it is the value of
    upload_chunk_params_rx,  \* what is in the channel of
                             \* upload_chunk_params_tx
    workers,                 \* the tasks that
                             \* handle_file_transfer_chunk_params spawned,
                             \* in order
    downloads,               \* AtemReceiver::downloads: the requests, each
                             \* with the id it is the value of
    sink,                    \* the channels of the downloads: what was
                             \* sent into them, in order, and the channels
                             \* whose Receiver was dropped
    error_tasks,             \* the tasks that handle_transfer_error has
                             \* spawned and that have not sent yet
    rx_log,                  \* every packet handled by the main loop, in order
    last,                    \* the handler that ran last, and the packet it
                             \* was given
    budget                   \* what the environment has done so far

vars == <<task, reconnect, session_id, initial_session_id, rx_queue,
          last_rx_time, next_pkt_forward, sender_packet_id, ack_queue,
          initialisation_complete, disconnected, timer, connect_result,
          loop_result, wire, forwarded, responses, facade, cmd_rx,
          selecting, clock_tasks, tx, state_task, state, storage_locks,
          owned_storage_locks, locks, held, unlock_tasks, uploads,
          finished_uploads, upload_chunk_params_rx, workers, downloads,
          sink, error_tasks, rx_log, last, budget>>

\* The fields a handler reads and writes, as one record.
Self ==
    [session_id |-> session_id, rx_queue |-> rx_queue,
     last_rx_time |-> last_rx_time, next_pkt_forward |-> next_pkt_forward,
     sender_packet_id |-> sender_packet_id, ack_queue |-> ack_queue,
     initialisation_complete |-> initialisation_complete,
     disconnected |-> disconnected, wire |-> wire, forwarded |-> forwarded,
     responses |-> responses, facade |-> facade, cmd_rx |-> cmd_rx,
     selecting |-> selecting, clock_tasks |-> clock_tasks, tx |-> tx,
     state_task |-> state_task, state |-> state,
     storage_locks |-> storage_locks,
     owned_storage_locks |-> owned_storage_locks, locks |-> locks,
     held |-> held, unlock_tasks |-> unlock_tasks, uploads |-> uploads,
     finished_uploads |-> finished_uploads,
     upload_chunk_params_rx |-> upload_chunk_params_rx, workers |-> workers,
     downloads |-> downloads, sink |-> sink, error_tasks |-> error_tasks,
     ret |-> "Ok"]

\* No download has begun.
NoSink == [sent |-> <<>>, gone |-> {}]

\* No packet: the handler was given none.
NoPacket == Packet({}, 0, 0, 0, 0, "None", <<>>)

\* The handler op ran, given resp.
Did(op, resp) == [op |-> op, resp |-> resp]

\* The handler returned with r (an error name, or "panic").
Ret(s, r) == [s EXCEPT !.ret = r]

\* channel.send(pkt)
Send(s, pkt) == [s EXCEPT !.wire = Append(@, pkt)]


(***************************************************************************)
(* Responders (oneshot senders).  <<"None", 0>> is Option::None.           *)
(***************************************************************************)
NoResponder == <<"None", 0>>

\* responder.send(result); a dropped responder is the result "Dropped".
Resolve(s, responder, result) ==
    IF responder = NoResponder THEN s
    ELSE [s EXCEPT !.responses = Append(@, <<responder, result>>)]

\* The results the responder was given.
ResultsOf(s, responder) ==
    {s.responses[k][2] : k \in {j \in 1..Len(s.responses) :
                                   s.responses[j][1] = responder}}

\* AsyncCommand::Commands { cmds, responder }
Commands(cmds, responder) ==
    [kind |-> "Commands", cmds |-> cmds, responder |-> responder]

(***************************************************************************)
(* limit_rx_queue                                                          *)
(***************************************************************************)
\* A check of the time that applies only while packets wait in rx_queue.
StalledWithPackets(s) ==
    \/ s.last_rx_time >= Quanta(MAX_RX_QUEUE_TIME) /\ s.rx_queue # <<>>
    \/ Len(s.rx_queue) >= MAX_RX_QUEUE_LENGTH

RxQueueStalled(s) ==
    \/ s.last_rx_time >= Quanta(MAX_RX_QUEUE_TIME)
    \/ Len(s.rx_queue) >= MAX_RX_QUEUE_LENGTH

\* A limit_rx_queue that lets every queue pass.
NoLimit(s) == s

LimitRxQueue(s) == IF RxQueueStalled(s) THEN Ret(s, "Timeout") ELSE s

(***************************************************************************)
(* handle_ack.  ack_queue is sorted by sender_packet_id, so each           *)
(* partition_point is the length of the prefix its predicate holds for.    *)
(***************************************************************************)
\* acked_packet_id.saturating_sub(MAX_ACK_QUEUE_LENGTH)
MinAckedPacketId(acked) ==
    IF acked >= MAX_ACK_QUEUE_LENGTH THEN acked - MAX_ACK_QUEUE_LENGTH ELSE 0

AckMinPos(q, acked) ==
    IF acked >= OVERFLOW_MARGIN
    THEN PrefixLen([i \in 1..Len(q) |->
             q[i].pkt.sender_packet_id < MinAckedPacketId(acked)])
    ELSE 0

AckPos(q, acked) ==
    PrefixLen([i \in 1..Len(q) |-> q[i].pkt.sender_packet_id <= acked])

RECURSIVE ResolveAll(_, _, _)
\* The responders of entries, in order, each signalled with result.
ResolveAll(s, entries, result) ==
    IF entries = <<>> THEN s
    ELSE ResolveAll(Resolve(s, Head(entries).responder, result),
                    Tail(entries), result)

HandleAck(s, acked) ==
    IF s.ack_queue = <<>> THEN s
    ELSE LET q       == s.ack_queue
             min_pos == AckMinPos(q, acked)
             pos     == AckPos(q, acked)
         IN  IF pos = 0 THEN s
             ELSE IF min_pos > pos THEN Ret(s, "panic")
             ELSE ResolveAll(
                      [s EXCEPT !.ack_queue =
                           SubSeq(q, 1, min_pos) \o SubSeq(q, pos + 1, Len(q))],
                      SubSeq(q, min_pos + 1, pos), "Ok")

(***************************************************************************)
(* Storage locks: what the peer's LockObtained and MediaPoolLockStatus do  *)
(* to the lock tables and to the StorageLock the Weak of a store points    *)
(* to.  A StorageLock is alive while a caller holds an Arc of it.          *)
(***************************************************************************)
\* Payload::LockObtained
LockObtained(store_id) == [kind |-> "LockObtained", id |-> store_id]

\* Payload::MediaPoolLockStatus
MediaPoolLockStatus(store_id, locked) ==
    [kind |-> "MediaPoolLockStatus", id |-> store_id, locked |-> locked]

\* Payload::MediaPoolLock: MediaPoolLock::lock and MediaPoolLock::unlock
MediaPoolLock(store_id, lock) ==
    [kind |-> "MediaPoolLock", id |-> store_id, lock |-> lock]

\* StorageLock::new
NewStorageLock(store_id) == [store_id |-> store_id, waiters |-> "waiting"]

\* The StorageLocks that have a strong reference.
Alive(s) == {pr[2] : pr \in s.held}

\* owned_storage_locks.get(&store_id): the StorageLock of the entry, if
\* there is one.
OwnedLock(s, store_id) ==
    {pr[2] : pr \in {q \in s.owned_storage_locks : q[1] = store_id}}

\* Weak::upgrade of that entry.
Upgrade(s, store_id) == OwnedLock(s, store_id) \cap Alive(s)

\* StorageLock::make_available: permits are added, unless the semaphore
\* is closed.
MakeAvailable(s, h) ==
    [s EXCEPT !.locks[h].waiters = IF @ = "closed" THEN @ ELSE "available"]

\* StorageLock::make_unavailable: the semaphore is closed.
MakeUnavailable(s, h) == [s EXCEPT !.locks[h].waiters = "closed"]

\* StorageLock::await_availability, as the semaphore stands: a permit, an
\* error of the closed semaphore, or the wait for one of them.
AwaitAvailability(s, h) ==
    CASE s.locks[h].waiters = "available" -> "Ok"
      [] s.locks[h].waiters = "closed" -> "ChannelUnavailable"
      [] OTHER -> "pending"

\* impl Drop for StorageLock, when the last Arc goes.
DropStorageLock(s, h) ==
    [MakeUnavailable(s, h) EXCEPT
        !.unlock_tasks = Append(@, s.locks[h].store_id)]

\* drop(storage_lock) of the Arc that request pr[1] was given.
DropArc(s, pr) ==
    LET s1 == [s EXCEPT !.held = @ \ {pr}]
    IN  IF pr \notin s.held \/ pr[2] \in Alive(s1) THEN s1
        ELSE DropStorageLock(s1, pr[2])

RECURSIVE DropRequests(_, _)
\* Transfer requests are dropped: reqs are their pairs <<responder,
\* storage_lock>>.
DropRequests(s, reqs) ==
    IF reqs = {} THEN s
    ELSE LET r == CHOOSE x \in reqs : TRUE
         IN  DropRequests(DropArc(Resolve(s, r[1], "Dropped"), r[2]),
                          reqs \ {r})

HandleLockObtained(s, store_id) ==
    IF store_id >= 64 THEN Ret(s, "ParameterOutOfRange")
    ELSE IF OwnedLock(s, store_id) = {} THEN Ret(s, "UnexpectedState")
    ELSE IF Upgrade(s, store_id) = {} THEN Ret(s, "Internal")
    ELSE MakeAvailable(s, CHOOSE h \in Upgrade(s, store_id) : TRUE)

HandleLockStateChanged(s, store_id, locked) ==
    IF locked THEN [s EXCEPT !.storage_locks = @ \cup {store_id}]
    ELSE LET s1 == [s EXCEPT !.storage_locks = @ \ {store_id},
                             !.owned_storage_locks =
                                 {q \in @ : q[1] # store_id}]
         IN  IF Upgrade(s, store_id) = {} THEN s1
             ELSE MakeUnavailable(s1, CHOOSE h \in Upgrade(s, store_id) : TRUE)

(***************************************************************************)
(* Transfers: what the peer's TransferChunk, TransferCompleted and         *)
(* FileTransferError do to the transfer tables.  A table is the set of its *)
(* values, each with the id it is the value of.                            *)
(***************************************************************************)
\* Payload::TransferCompleted
TransferCompleted(id) == Atom("TransferCompleted", id)

\* Payload::FileTransferError
FileTransferError(id, code) ==
    [kind |-> "FileTransferError", id |-> id, code |-> code]

\* AsyncFileDownloadRequest, as the value of the key id; sender names its
\* channel, storage_lock is the Arc it holds.
AsyncFileDownloadRequest(id, sender, storage_lock) ==
    [id |-> id, tx |-> sender, bytes_received |-> 0, bytes_since_last_ack |-> 0,
     storage_lock |-> storage_lock]

\* downloads.get(&id)
DownloadsGet(s, id) == {d \in s.downloads : d.id = id}

\* uploads.get(&id)
UploadsGet(s, id) == {u \in s.uploads : u.id = id}

\* finished_uploads.get(&id)
FinishedGet(s, id) == {f \in s.finished_uploads : f.id = id}

\* tx.send(item) of a download's channel, whose Receiver is there.  The
\* channel has room for 128 items, more than a behaviour here sends.
SinkSend(s, sender, item) ==
    [s EXCEPT !.sink.sent = Append(@, [tx |-> sender, item |-> item])]

\* responder.send(Err(Error::SwitcherTransferError(code)))
ResolveCode(s, responder, code) ==
    IF responder = NoResponder THEN s
    ELSE [s EXCEPT !.responses =
             Append(@, <<responder, "SwitcherTransferError", code>>)]

\* A handler that leaves the chunk where it is.
IgnoreDownloadChunk(s, chunk) == s

HandleDownloadChunk(s, chunk) ==
    IF DownloadsGet(s, chunk.id) = {} THEN s
    ELSE LET old      == CHOOSE d \in DownloadsGet(s, chunk.id) : TRUE
             others   == s.downloads \ {old}
             download == [old EXCEPT
                             !.bytes_received = @ + Len(chunk.payload),
                             !.bytes_since_last_ack = @ + Len(chunk.payload)]
         IN  IF old.tx \in s.sink.gone
             THEN DropArc([s EXCEPT !.downloads = others], old.storage_lock)
             ELSE SinkSend([s EXCEPT !.downloads = others \cup {download}],
                           old.tx, <<"Ok", chunk.payload>>)

\* A handler that leaves every transfer where it is.
IgnoreTransferCompleted(s, id) == s

HandleTransferCompleted(s, id) ==
    IF DownloadsGet(s, id) # {}
    THEN LET download == CHOOSE d \in DownloadsGet(s, id) : TRUE
         IN  DropArc([s EXCEPT !.downloads = @ \ {download}],
                     download.storage_lock)
    ELSE IF FinishedGet(s, id) # {}
    THEN LET f == CHOOSE x \in FinishedGet(s, id) : TRUE
         IN  DropArc(Resolve([s EXCEPT !.finished_uploads = @ \ {f}],
                             f.responder, "Ok"),
                     f.storage_lock)
    ELSE s

HandleTransferError(s, id, code) ==
    IF DownloadsGet(s, id) # {}
    THEN LET download == CHOOSE d \in DownloadsGet(s, id) : TRUE
         IN  DropArc([s EXCEPT !.downloads = @ \ {download},
                               !.error_tasks = Append(@,
                                   [tx |-> download.tx, code |-> code])],
                     download.storage_lock)
    ELSE IF UploadsGet(s, id) # {}
    THEN LET upload == CHOOSE u \in UploadsGet(s, id) : TRUE
         IN  DropArc(ResolveCode([s EXCEPT !.uploads = @ \ {upload}],
                                 upload.responder, code),
                     upload.storage_lock)
    ELSE IF FinishedGet(s, id) # {}
    THEN LET f == CHOOSE x \in FinishedGet(s, id) : TRUE
         IN  DropArc(ResolveCode([s EXCEPT !.finished_uploads = @ \ {f}],
                                 f.responder, code),
                     f.storage_lock)
    ELSE s

(***************************************************************************)
(* forward_rx_queue(from..to): the drained packets are handed to the state *)
(* mirror and acknowledged, one at a time.                                 *)
(***************************************************************************)
\* next_pkt_forward after packet p is forwarded.
NextPktForward(next, p) ==
    IF p.sender_packet_id = LAST_FORWARD_ID THEN 0
    ELSE IF next = p.sender_packet_id THEN WrapU16(p.sender_packet_id + 1)
    ELSE next

\* An acknowledgement that is sent as make_ack returned it.
SendAckUnsequenced(s, acks) == IF acks = <<>> THEN s ELSE Send(s, acks[1])

\* The acknowledgement of a forwarded packet: one that carries transfer
\* acks takes a sender_packet_id.
SendAck(s, acks) ==
    IF acks = <<>> THEN s
    ELSE LET ack == acks[1]
         IN  IF HasAtoms(ack) /\ ack.sender_packet_id = 0
             THEN Send([s EXCEPT !.sender_packet_id = WrapU16(@ + 1)],
                       [ack EXCEPT !.sender_packet_id = s.sender_packet_id])
             ELSE Send(s, ack)

\* tx.send(p): it fails when the state task has dropped its receiver.
StateSend(s, p) ==
    IF s.state_task # "running" THEN Ret(s, "Internal")
    ELSE [s EXCEPT !.tx = Append(@, p), !.forwarded = Append(@, p)]

\* The atoms forward_rx_queue takes out of the packet and handles itself.
IsSpecialCase(a) ==
    a.kind \in {"FileTransferChunkParams", "TransferCompleted",
                "FileTransferError", "TransferChunk", "LockObtained",
                "MediaPoolLockStatus"}

\* enqueue_file_transfer_chunk_params: the send waits while the channel is
\* full, and only main_loop() takes from it.
EnqueueFileTransferChunkParams(s, params) ==
    IF Len(s.upload_chunk_params_rx) >= UPLOAD_CHUNK_PARAMS_SIZE
    THEN Ret(s, "blocked")
    ELSE [s EXCEPT !.upload_chunk_params_rx = Append(@, params)]

RECURSIVE SpecialCases(_, _)
\* The special-cased atoms are handled in their order; the first error
\* ends forward_rx_queue.
SpecialCases(s, atoms) ==
    IF atoms = <<>> \/ s.ret # "Ok" THEN s
    ELSE LET a == Head(atoms)
         IN  SpecialCases(
                 CASE a.kind = "FileTransferChunkParams" ->
                          EnqueueFileTransferChunkParams(s, a)
                   [] a.kind = "TransferCompleted" ->
                          HandleTransferCompleted(s, a.id)
                   [] a.kind = "FileTransferError" ->
                          HandleTransferError(s, a.id, a.code)
                   [] a.kind = "TransferChunk" -> HandleDownloadChunk(s, a)
                   [] a.kind = "LockObtained" -> HandleLockObtained(s, a.id)
                   [] a.kind = "MediaPoolLockStatus" ->
                          HandleLockStateChanged(s, a.id, a.locked)
                   [] OTHER -> s,
                 Tail(atoms))

ForwardOne(s, p) ==
    LET s1 == SpecialCases(
                  [s EXCEPT !.next_pkt_forward = NextPktForward(@, p)],
                  p.atoms)
        s2 == IF s1.ret # "Ok" THEN s1
              ELSE StateSend(s1, [p EXCEPT !.atoms =
                       SelectSeq(@, LAMBDA a : ~IsSpecialCase(a))])
    IN  IF s2.ret # "Ok" THEN s2
        ELSE [SendAck(s2, MakeAck(p)) EXCEPT !.last_rx_time = 0]

RECURSIVE ForwardPackets(_, _)
ForwardPackets(s, packets) ==
    IF packets = <<>> \/ s.ret # "Ok" THEN s
    ELSE ForwardPackets(ForwardOne(s, Head(packets)), Tail(packets))

ForwardRxQueue(s, from, to) ==
    IF from > to THEN Ret(s, "panic")
    ELSE ForwardPackets(
             [s EXCEPT !.rx_queue =
                  SubSeq(@, 1, from) \o SubSeq(@, to + 1, Len(@))],
             SubSeq(s.rx_queue, from + 1, to))

(***************************************************************************)
(* handle_incoming_packet                                                  *)
(***************************************************************************)
\* No packet is taken for an old one.
NeverOld(s, resp) == FALSE

\* The switcher is sending an old packet again.
IsOldPacket(s, resp) == resp.sender_packet_id < s.next_pkt_forward

\* rx_queue with resp put at its end.
QueuePacketAtEnd(q, resp) == Append(q, resp)

\* rx_queue with resp put into it, unless a packet of its id is there.
QueuePacket(q, resp) ==
    LET idx == PrefixLen([i \in 1..Len(q) |->
                   q[i].sender_packet_id < resp.sender_packet_id])
    IN  IF idx < Len(q) /\ q[idx + 1].sender_packet_id = resp.sender_packet_id
        THEN q
        ELSE InsertAt(q, idx, resp)

\* The possible starts of the range to forward.
ForwardStarts(q, next) ==
    IF next >= RX_QUEUE_OVERFLOW_MARGIN
    THEN PartitionPoints([i \in 1..Len(q) |->
             RX_QUEUE_OVERFLOW_MARGIN < q[i].sender_packet_id])
    ELSE {0}

\* The end of the range to forward.
ForwardEnd(q, next) ==
    PrefixLen([i \in 1..Len(q) |-> q[i].sender_packet_id <= next])

HasInitialisationComplete(resp) ==
    /\ resp.control = "None"
    /\ \E i \in 1..Len(resp.atoms) : resp.atoms[i].kind = "InitialisationComplete"

\* A DisconnectAck that is sent with the next sender_packet_id.
SequencedDisconnectAck(s) ==
    NewControl({"control"}, s.session_id, 0, 0, s.sender_packet_id,
               "DisconnectAck")

DisconnectAck(s) ==
    NewControl({"control"}, s.session_id, 0, 0, 0, "DisconnectAck")

HandleIncomingPacket(s, resp) ==
    IF s.session_id < SESSION_HIGH_BIT THEN {Ret(s, "panic")}
    ELSE IF s.session_id # resp.session_id THEN {s}
    ELSE IF LimitRxQueue(s).ret # "Ok" THEN {LimitRxQueue(s)}
    ELSE IF resp.control = "Disconnect"
    THEN {Ret(Send([s EXCEPT !.disconnected = TRUE], DisconnectAck(s)),
              "Disconnected")}
    ELSE IF resp.control # "None" THEN {Ret(s, "UnexpectedState")}
    ELSE
      LET s1 == IF HasInitialisationComplete(resp)
                THEN [s EXCEPT !.initialisation_complete = TRUE] ELSE s
          s2 == IF resp.acked_packet_id # 0 /\ "response" \in resp.flags
                THEN HandleAck(s1, resp.acked_packet_id) ELSE s1
      IN  IF s2.ret # "Ok" THEN {s2}
          ELSE IF resp.sender_packet_id = 0 /\ ~HasAtoms(resp) THEN {s2}
          ELSE IF IsOldPacket(s2, resp) THEN {s2}
          ELSE
            LET q   == QueuePacket(s2.rx_queue, resp)
                s3  == [s2 EXCEPT !.rx_queue = q]
                idx == ForwardEnd(q, s3.next_pkt_forward)
            IN  IF idx > 0
                THEN {ForwardRxQueue(s3, from, idx) :
                          from \in ForwardStarts(q, s3.next_pkt_forward)}
                ELSE {s3}

(***************************************************************************)
(* handle_queued_command, for AsyncCommand::Commands                       *)
(***************************************************************************)
\* sender_packet_id.fetch_add(1): the id after id.
NextSenderPacketId(id) == WrapU16(id + 1)

Waiting(pkt, responder) ==
    [pkt |-> [pkt EXCEPT !.flags = @ \cup {"retransmission"}],
     responder |-> responder, retry_limit |-> RETRANSMIT_LIMIT,
     last_attempt |-> 0]

\* The responders of a cleared ack_queue are dropped.
DropAll(s, entries) ==
    LET waited == SelectSeq(entries, LAMBDA e : e.responder # NoResponder)
    IN  [s EXCEPT !.responses =
             @ \o [i \in 1..Len(waited) |->
                      <<waited[i].responder, "Dropped">>]]

EnqueueWaiting(s, waiting) ==
    LET s1  == IF Len(s.ack_queue) >= MAX_ACK_QUEUE_LENGTH
               THEN DropAll([s EXCEPT !.ack_queue = <<>>], s.ack_queue)
               ELSE s
        idx == PrefixLen([i \in 1..Len(s1.ack_queue) |->
                   s1.ack_queue[i].pkt.sender_packet_id
                       < waiting.pkt.sender_packet_id])
    IN  [s1 EXCEPT !.ack_queue = InsertAt(@, idx, waiting)]

HandleQueuedCommand(s, cmds, responder) ==
    LET id  == s.sender_packet_id
        pkt == NewAtoms({"ack"}, s.session_id, 0, 0, id, cmds)
    IN  EnqueueWaiting(
            Send([s EXCEPT !.sender_packet_id = NextSenderPacketId(id)], pkt),
            Waiting(pkt, responder))

(***************************************************************************)
(* handle_queued_command, for AsyncCommand::StorageLock                    *)
(***************************************************************************)
\* AsyncCommand::StorageLock { store_id, responder }
StorageLock(store_id, responder) ==
    [kind |-> "StorageLock", store_id |-> store_id, responder |-> responder]

\* cmd_tx_weak.upgrade(): there is a Sender while the application has the
\* controller, or a StorageLock or a task of its drop is there.
HasSender(s) ==
    \/ s.facade # "dropped" \/ s.held # {} \/ s.unlock_tasks # <<>>
    \/ \E w \in 1..Len(s.workers) : s.workers[w].pc # "done"

\* responder.send(Ok(storage_lock)): the caller of the request holds an
\* Arc of StorageLock h.
GiveLock(s, responder, h) ==
    [Resolve(s, responder, "Ok") EXCEPT !.held = @ \cup {<<responder[2], h>>}]

HandleStorageLock(s, store_id, responder) ==
    IF store_id >= 64 THEN Resolve(s, responder, "ParameterOutOfRange")
    ELSE IF Upgrade(s, store_id) # {}
    THEN GiveLock(s, responder, CHOOSE h \in Upgrade(s, store_id) : TRUE)
    ELSE IF ~HasSender(s) THEN Ret(Resolve(s, responder, "Internal"), "Internal")
    ELSE LET h  == Len(s.locks) + 1
             s1 == [s EXCEPT
                       !.locks = Append(@, NewStorageLock(store_id)),
                       !.owned_storage_locks =
                           {q \in @ : q[1] # store_id} \cup {<<store_id, h>>}]
         IN  HandleQueuedCommand(GiveLock(s1, responder, h),
                                 <<MediaPoolLock(store_id, TRUE)>>, NoResponder)

\* AsyncCommand::FileDownload(req) and AsyncCommand::FileUpload(req)
FileDownload(req) == [kind |-> "FileDownload", req |-> req]
FileUpload(req) == [kind |-> "FileUpload", req |-> req]

\* Payload::SetupFileUpload and Payload::SetupFileDownload
SetupFileUpload(id) == Atom("SetupFileUpload", id)
SetupFileDownload(id) == Atom("SetupFileDownload", id)

\* downloads.insert(id, req): the value the key had is dropped.
HandleFileDownload(s, req, id) ==
    HandleQueuedCommand(
        DropRequests(
            [s EXCEPT !.downloads =
                 (@ \ DownloadsGet(s, id)) \cup {[req EXCEPT !.id = id]}],
            {<<NoResponder, d.storage_lock>> : d \in DownloadsGet(s, id)}),
        <<SetupFileUpload(id)>>, NoResponder)

\* uploads.insert(id, req): the value the key had is dropped.
HandleFileUpload(s, req, id) ==
    HandleQueuedCommand(
        DropRequests(
            [s EXCEPT !.uploads =
                 (@ \ UploadsGet(s, id)) \cup {[req EXCEPT !.id = id]}],
            {<<u.responder, u.storage_lock>> : u \in UploadsGet(s, id)}),
        <<SetupFileDownload(id)>>, NoResponder)

\* handle_queued_command: the match on the AsyncCommand; id is what
\* rand::random() gives.
HandleAsyncCommand(s, cmd, id) ==
    IF cmd.kind = "StorageLock"
    THEN HandleStorageLock(s, cmd.store_id, cmd.responder)
    ELSE IF cmd.kind = "FileDownload" THEN HandleFileDownload(s, cmd.req, id)
    ELSE IF cmd.kind = "FileUpload" THEN HandleFileUpload(s, cmd.req, id)
    ELSE HandleQueuedCommand(s, cmd.cmds, cmd.responder)

(***************************************************************************)
(* Uploads.  A u64 of the source stream is its eight bytes, the most       *)
(* significant first, as to_be_bytes() gives them; a payload is a sequence *)
(* of bytes.                                                               *)
(***************************************************************************)
RLE_MARKER == <<254, 254, 254, 254, 254, 254, 254, 254>>

\* The u64 n, for n < 256.
Word(n) == <<0, 0, 0, 0, 0, 0, 0, n>>

\* Payload::FileTransferChunkParams
FileTransferChunkParams(id, chunk_size, chunk_count) ==
    [kind |-> "FileTransferChunkParams", id |-> id,
     chunk_size |-> chunk_size, chunk_count |-> chunk_count]

\* Payload::TransferChunk
TransferChunk(id, payload) ==
    [kind |-> "TransferChunk", id |-> id, payload |-> payload]

\* Payload::FinishFileDownload
FinishFileDownload(id) == Atom("FinishFileDownload", id)

\* AsyncFileUploadRequest, as the value of the key id; semaphore names its
\* Semaphore of one permit, storage_lock is the Arc it holds.
AsyncFileUploadRequest(id, buffer, semaphore, responder, storage_lock) ==
    [id |-> id, buffer |-> buffer, chunk_size |-> 0, chunks_remaining |-> 0,
     semaphore |-> semaphore, responder |-> responder,
     storage_lock |-> storage_lock]


\* n & !0x7
ClearLow3(n) == n - (n % 8)

\* An MTU that takes no notice of the chunk size of the peer.
MtuOfProtocol(chunk_size) == ClearLow3(TRANSFER_CHUNK_MAX_PAYLOAD_LENGTH)

\* The MTU of an upload.
Mtu(chunk_size) ==
    ClearLow3(Min(TRANSFER_CHUNK_MAX_PAYLOAD_LENGTH, chunk_size))

RECURSIVE FillChunk(_, _, _)
\* The inner loop: <<payload, buffer>> when the chunk is left.
FillChunk(buffer, payload, mtu) ==
    IF buffer = <<>> THEN <<payload, buffer>>
    ELSE LET b == Head(buffer)
         IN  IF b = RLE_MARKER /\ Len(payload) + 24 > mtu
             THEN <<payload, buffer>>
             ELSE IF Len(payload \o b) >= mtu
             THEN <<payload \o b, Tail(buffer)>>
             ELSE FillChunk(Tail(buffer), payload \o b, mtu)

RECURSIVE BuildChunks(_, _, _)
\* The outer loop: <<upload, chunks>>.
BuildChunks(upload, mtu, chunks) ==
    IF upload.chunks_remaining = 0 THEN <<upload, chunks>>
    ELSE LET r == FillChunk(upload.buffer, <<>>, mtu)
         IN  IF r[1] = <<>> THEN <<upload, chunks>>
             ELSE BuildChunks(
                      [upload EXCEPT !.buffer = r[2],
                                     !.chunks_remaining = @ - 1],
                      mtu, Append(chunks, TransferChunk(upload.id, r[1])))

\* The task that sends the chunks: it waits for the permit first.
Worker(upload, chunks) ==
    [id |-> upload.id, semaphore |-> upload.semaphore, chunks |-> chunks,
     sent |-> 0, burst |-> <<>>, pc |-> "permit"]

\* tokio::task::spawn
Spawn(s, worker) == [s EXCEPT !.workers = Append(@, worker)]

HandleFileTransferChunkParams(s, params) ==
    IF ~HasSender(s) THEN Ret(s, "UnexpectedState")
    ELSE IF UploadsGet(s, params.id) = {} THEN s
    ELSE LET old    == CHOOSE u \in UploadsGet(s, params.id) : TRUE
             others == s.uploads \ {old}
             upload == [old EXCEPT !.chunk_size = params.chunk_size,
                                   !.chunks_remaining = params.chunk_count]
             mtu    == Mtu(upload.chunk_size)
             r      == BuildChunks(upload, mtu, <<>>)
         IN  IF mtu <= 24
             THEN Ret([s EXCEPT !.uploads = others \cup {upload}],
                      "ParameterOutOfRange")
             ELSE IF r[1].buffer # <<>>
             THEN Spawn([s EXCEPT !.uploads = others \cup {r[1]}],
                        Worker(upload, r[2]))
             ELSE LET finished == [id |-> params.id,
                                   responder |-> upload.responder,
                                   storage_lock |-> upload.storage_lock]
                      olds     == FinishedGet(s, params.id)
                      s1       == [s EXCEPT !.uploads = others,
                                       !.finished_uploads =
                                           (@ \ olds) \cup {finished}]
                  IN  IF olds # {}
                      THEN Ret(DropRequests(s1,
                                   {<<f.responder, f.storage_lock>> :
                                       f \in olds}),
                               "UnexpectedState")
                      ELSE Spawn(s1, Worker(upload, Append(r[2],
                                     FinishFileDownload(params.id))))

(***************************************************************************)
(* do_retransmits                                                          *)
(***************************************************************************)
\* The entry is given up with one retransmit left.
RetriesExhaustedEarly(pending) == pending.retry_limit <= 1

\* No retransmits are left for this entry.
RetriesExhausted(pending) == pending.retry_limit = 0

\* The entry is due: RETRANSMIT_TIME has passed since its last attempt.
RetransmitDue(pending) == pending.last_attempt >= Quanta(RETRANSMIT_TIME)

\* The first loop, from entry i (counted from 1): <<s, errors>>, errors
\* being the (0-based) indexes of the entries that timed out, last first.
\* Every entry that is due and has retries left is sent again, in the order
\* of the queue.
RetransmitFrom(s, i, errors) ==
    LET q      == s.ack_queue
        resent == {k \in i..Len(q) : /\ RetransmitDue(q[k])
                                     /\ ~RetriesExhausted(q[k])}
        failed == SelectSeq([k \in 1..Len(q) |-> k],
                            LAMBDA k : /\ k >= i
                                       /\ RetransmitDue(q[k])
                                       /\ RetriesExhausted(q[k]))
        again  == SelectSeq([k \in 1..Len(q) |-> k],
                            LAMBDA k : k \in resent)
    IN  <<[s EXCEPT
              !.ack_queue =
                  [k \in 1..Len(q) |->
                      IF k \in resent
                      THEN [q[k] EXCEPT !.retry_limit = @ - 1,
                                        !.last_attempt = 0]
                      ELSE q[k]],
              !.wire = @ \o [n \in 1..Len(again) |-> q[again[n]].pkt]],
          [n \in 1..Len(failed) |-> failed[Len(failed) + 1 - n] - 1]
              \o errors>>

RECURSIVE CollectErrors(_, _)
CollectErrors(s, errors) ==
    IF errors = <<>> THEN s
    ELSE LET i == Head(errors)
         IN  IF i >= Len(s.ack_queue) THEN Ret(s, "Internal")
             ELSE CollectErrors(
                      Resolve([s EXCEPT !.ack_queue = RemoveAt(@, i)],
                              s.ack_queue[i + 1].responder, "Timeout"),
                      Tail(errors))

DoRetransmits(s) ==
    LET r == RetransmitFrom(s, 1, <<>>)
    IN  CollectErrors(r[1], r[2])

(***************************************************************************)
(* request_clock, and the arm of main_loop for the retransmit interval     *)
(***************************************************************************)
TIME_REQUEST_COMMAND == <<Atom("TimecodeRequest", 0)>>

\* The probe is sent, and a task is spawned that waits for its result.
RequestClock(s, n) ==
    [HandleQueuedCommand(s, TIME_REQUEST_COMMAND, <<"clock", n>>) EXCEPT
        !.clock_tasks = @ \cup {n}]

\* The tasks of request_clock() whose probe has failed: each is about to
\* call clock_notifier.notify_waiters().
Woken(s) ==
    {n \in s.clock_tasks : ResultsOf(s, <<"clock", n>>) \ {"Ok"} # {}}

RetransmitWakeup(s, n) ==
    LET s1 == IF s.initialisation_complete THEN RequestClock(s, n) ELSE s
        s2 == LimitRxQueue(s1)
    IN  IF s2.ret # "Ok" THEN s2 ELSE DoRetransmits(s2)


(***************************************************************************)
(* impl Drop for AtemReceiver: disconnect()                                *)
(***************************************************************************)
Disconnect(s) ==
    IF s.disconnected THEN s
    ELSE Send([s EXCEPT !.disconnected = TRUE],
              NewControl({"control"}, s.session_id, 0, 0, 0, "Disconnect"))

\* The requests of the transfer tables, as pairs <<responder,
\* storage_lock>>.
Transfers(s) ==
    {<<u.responder, u.storage_lock>> :
        u \in s.uploads \cup s.finished_uploads}
    \cup {<<NoResponder, d.storage_lock>> : d \in s.downloads}

\* The requests of transfers that are in the command channel.
QueuedTransfers(s) ==
    {<<IF s.cmd_rx[i].kind = "FileUpload" THEN s.cmd_rx[i].req.responder
       ELSE NoResponder, s.cmd_rx[i].req.storage_lock>> :
        i \in {j \in 1..Len(s.cmd_rx) :
                  s.cmd_rx[j].kind \in {"FileDownload", "FileUpload"}}}

\* The receiver is dropped: Disconnect is sent, and what is in the command
\* channel, in ack_queue and in the transfer tables is dropped with its
\* responders.
DropReceiver(s) ==
    [DropRequests(
         DropAll(DropAll([Disconnect(s) EXCEPT !.cmd_rx = <<>>,
                                               !.ack_queue = <<>>],
                         SelectSeq(s.cmd_rx, LAMBDA c :
                             c.kind \notin {"FileDownload", "FileUpload"})),
                 s.ack_queue),
         Transfers(s) \cup QueuedTransfers(s))
     EXCEPT !.downloads = {}, !.uploads = {}, !.finished_uploads = {}]

(***************************************************************************)
(* What a handler leaves is written back; a handler that returned an       *)
(* error ends main_loop(), and run() goes on from there: it returns (and   *)
(* the receiver is dropped) unless reconnect is set, and then it sleeps    *)
(* RECONNECT_DELAY before it calls initialise().  After a handler that     *)
(* returned Ok the loop waits in its select! again; where a task of        *)
(* request_clock() is about to notify, that is a step of its own (Select), *)
(* because the two may come in either order.                               *)
(***************************************************************************)
Commit(s) ==
    /\ session_id' = s.session_id
    /\ rx_queue' = s.rx_queue
    /\ last_rx_time' = s.last_rx_time
    /\ next_pkt_forward' = s.next_pkt_forward
    /\ sender_packet_id' = s.sender_packet_id
    /\ ack_queue' = s.ack_queue
    /\ initialisation_complete' = s.initialisation_complete
    /\ disconnected' = s.disconnected
    /\ wire' = s.wire
    /\ forwarded' = s.forwarded
    /\ responses' = s.responses
    /\ facade' = s.facade
    /\ cmd_rx' = s.cmd_rx
    /\ selecting' = s.selecting
    /\ clock_tasks' = s.clock_tasks
    /\ tx' = s.tx
    /\ state_task' = s.state_task
    /\ state' = s.state
    /\ storage_locks' = s.storage_locks
    /\ owned_storage_locks' = s.owned_storage_locks
    /\ locks' = s.locks
    /\ held' = s.held
    /\ unlock_tasks' = s.unlock_tasks
    /\ uploads' = s.uploads
    /\ finished_uploads' = s.finished_uploads
    /\ upload_chunk_params_rx' = s.upload_chunk_params_rx
    /\ workers' = s.workers
    /\ downloads' = s.downloads
    /\ sink' = s.sink
    /\ error_tasks' = s.error_tasks

\* state_task.abort(): a state task that has returned keeps its result.
AbortStateTask(s) ==
    [s EXCEPT !.state_task = IF @ = "running" THEN "aborted" ELSE @,
              !.tx = <<>>]

\* A run() that reconnects whatever the state task returned.
AfterHandlerRestarts(s) ==
    IF s.ret = "Ok"
    THEN /\ Commit([s EXCEPT !.selecting = (Woken(s) = {})])
         /\ UNCHANGED <<task, loop_result>>
    ELSE IF s.ret = "blocked"
    THEN Commit(s) /\ task' = "blocked" /\ UNCHANGED loop_result
    ELSE /\ loop_result' = s.ret
         /\ IF s.ret = "panic"
            THEN Commit(DropReceiver(s)) /\ task' = "done"
            ELSE IF reconnect
            THEN Commit(AbortStateTask(s)) /\ task' = "reconnect_wait"
            ELSE Commit(DropReceiver(AbortStateTask(s))) /\ task' = "done"

AfterHandler(s) ==
    IF s.ret = "Ok"
    THEN /\ Commit([s EXCEPT !.selecting = (Woken(s) = {})])
         /\ UNCHANGED <<task, loop_result>>
    ELSE IF s.ret = "blocked"
    THEN Commit(s) /\ task' = "blocked" /\ UNCHANGED loop_result
    ELSE /\ loop_result' = s.ret
         /\ IF s.ret = "panic"
            THEN Commit(DropReceiver(s)) /\ task' = "done"
            ELSE IF reconnect /\ s.state_task # "failed"
            THEN Commit(AbortStateTask(s)) /\ task' = "reconnect_wait"
            ELSE Commit(DropReceiver(AbortStateTask(s))) /\ task' = "done"

\* The timer after a handler: the interval goes on with t elapsed, or the
\* sleep of RECONNECT_DELAY starts.
TimerAfter(s, t) == IF s.ret = "Ok" THEN t ELSE 0

(***************************************************************************)
(* initialise(): the fields are cleared and Connect is sent.               *)
(***************************************************************************)
\* rand::rng().random_range(1..=0x7fff), some of its values.
InitialSessionIds == {1, MAX_INITIAL_SESSION_ID}

\* AtemState::default()
DefaultState ==
    [initialisation_complete |-> FALSE, version |-> <<0, 0>>, events |-> 0]

\* The fields as initialise() clears them; a state task with a channel of
\* its own is spawned.
Cleared(s) ==
    [DropRequests(s, Transfers(s))
     EXCEPT !.downloads = {}, !.sender_packet_id = 1, !.session_id = 0, !.rx_queue = <<>>,
              !.next_pkt_forward = 1, !.last_rx_time = 0,
              !.disconnected = FALSE, !.initialisation_complete = FALSE,
              !.ack_queue = <<>>, !.clock_tasks = {}, !.selecting = TRUE,
              !.state = DefaultState, !.tx = <<>>, !.state_task = "running",
              !.storage_locks = {}, !.owned_storage_locks = {},
              !.uploads = {}, !.finished_uploads = {},
              !.upload_chunk_params_rx = <<>>]

\* The first packet of the handshake.
Connect(sid) ==
    NewControl({"control"}, sid, 0, CONNECT_CLIENT_PACKET_ID, 0, "Connect")

Initialise ==
    /\ \/ task = "new"
       \/ task = "reconnect_wait" /\ timer >= Quanta(RECONNECT_DELAY)
    /\ budget.connects < budget.limit.connects
    /\ \E sid \in InitialSessionIds :
         /\ initial_session_id' = sid
         /\ Commit(Send(DropAll(Cleared(Self), ack_queue), Connect(sid)))
    /\ task' = "handshake"
    /\ timer' = 0
    /\ last' = Did("initialise", NoPacket)
    /\ budget' = [budget EXCEPT !.connects = @ + 1]
    /\ UNCHANGED <<reconnect, connect_result, loop_result, rx_log>>

\* run() that enters main_loop() although a later initialise() returned
\* the error e.
InitialiseFailedIgnored(e) ==
    /\ IF connect_result = "pending"
       THEN /\ connect_result' = e
            /\ task' = "done"
            /\ Commit(DropReceiver(Self))
       ELSE /\ task' = "main_loop"
            /\ Commit(Self)
            /\ UNCHANGED connect_result
    /\ timer' = 0
    /\ UNCHANGED <<reconnect, initial_session_id, loop_result, rx_log>>

\* initialise() returned the error e.
InitialiseFailed(e) ==
    /\ IF connect_result = "pending"
       THEN /\ connect_result' = e
            /\ task' = "done"
            /\ Commit(DropReceiver(Self))
       ELSE /\ task' = "reconnect_wait"
            /\ Commit(Self)
            /\ UNCHANGED connect_result
    /\ timer' = 0
    /\ UNCHANGED <<reconnect, initial_session_id, loop_result, rx_log>>

\* What the peer may send during the handshake.
\* ConnectAck { session_id }, some of the session ids.
ConnectAckSessionIds == {2, SESSION_HIGH_BIT + 1}

\* The session ids of the packets that come during the handshake: the
\* initial one, and that of another session.
HandshakeSessionIds == {initial_session_id, initial_session_id + SESSION_HIGH_BIT}

\* What the peer may send during the handshake.
HandshakePackets ==
    {Packet(IF c = "None" THEN {} ELSE {"control"}, sid, 0, 0, 0, c, <<>>) :
        sid \in HandshakeSessionIds,
        c \in {"None", "Connect", "ConnectNack", "Disconnect"}}
    \cup {ConnectAck(sid, n, s) : sid \in HandshakeSessionIds, n \in {0, 1},
                                  s \in ConnectAckSessionIds}

\* No packet is skipped.
SkipsNothing(resp) == FALSE

\* The packet is for another session, or is no control packet: continue.
HandshakeSkips(resp) ==
    resp.session_id # initial_session_id \/ resp.control = "None"

\* One turn of the loop that waits for the response to Connect, resp
\* being what channel.recv() returned.
HandshakeTurn(resp) ==
    IF HandshakeSkips(resp)
    THEN /\ Commit(Self)
         /\ UNCHANGED <<task, reconnect, initial_session_id, timer,
                        connect_result, loop_result, rx_log>>
    ELSE IF resp.control = "ConnectAck"
    THEN /\ Commit(Send([Self EXCEPT !.session_id = OrHighBit(resp.control_arg)],
                        NewPacket({"response"}, initial_session_id,
                                  resp.sender_packet_id,
                                  INIT_ACK_CLIENT_PACKET_ID, 0)))
         /\ task' = "main_loop"
         /\ timer' = TickQuanta
         /\ connect_result' = "Ok"
         /\ UNCHANGED <<reconnect, initial_session_id, loop_result, rx_log>>
    ELSE IF resp.control = "ConnectNack"
    THEN InitialiseFailed("MixerOverloaded")
    ELSE InitialiseFailed("UnexpectedState")

HandshakeRecv ==
    /\ task = "handshake"
    /\ timer < Quanta(INIT_TIMEOUT)
    /\ budget.recv < budget.limit.recv
    /\ budget' = [budget EXCEPT !.recv = @ + 1]
    /\ \E resp \in HandshakePackets :
         /\ last' = Did("handshake_recv", resp)
         /\ HandshakeTurn(resp)

\* INIT_TIMEOUT passed in the wait for the response.
HandshakeTimeout ==
    /\ task = "handshake"
    /\ timer >= Quanta(INIT_TIMEOUT)
    /\ InitialiseFailed("Timeout")
    /\ last' = Did("handshake_timeout", NoPacket)
    /\ UNCHANGED budget

(***************************************************************************)
(* The arms of main_loop()'s select.                                       *)
(***************************************************************************)
\* The id of the upload that is there when a behaviour begins with one.
UploadId == 7

\* What rand::random() may give as the id of a transfer: UploadId and the
\* value after it.
RandomIds(cmd) ==
    IF cmd.kind \in {"FileDownload", "FileUpload"}
    THEN {UploadId, UploadId + 1}
    ELSE {0}

\* Some(async_cmd) = cmd_rx.recv(): the first command in the channel.
QueuedCommand ==
    /\ task = "main_loop"
    /\ selecting
    /\ timer < TickQuanta
    /\ cmd_rx # <<>>
    /\ last' = Did("command", NoPacket)
    /\ \E id \in RandomIds(Head(cmd_rx)) :
         LET cmd == Head(cmd_rx)
             s   == HandleAsyncCommand([Self EXCEPT !.cmd_rx = Tail(@)],
                                       cmd, id)
         IN  AfterHandler(s) /\ timer' = TimerAfter(s, timer)
    /\ UNCHANGED <<reconnect, initial_session_id, connect_result, rx_log,
                   budget>>

\* Ok(resp) = channel.recv(): a packet of the peer.
IncomingPacket(resp) ==
    /\ task = "main_loop"
    /\ selecting
    /\ timer < TickQuanta
    /\ budget.recv < budget.limit.recv
    /\ budget' = [budget EXCEPT !.recv = @ + 1]
    /\ last' = Did("packet", resp)
    /\ rx_log' = Append(rx_log, resp)
    /\ \E s \in HandleIncomingPacket(Self, resp) :
         AfterHandler(s) /\ timer' = TimerAfter(s, timer)
    /\ UNCHANGED <<reconnect, initial_session_id, connect_result>>

\* Some(_) = retransmit_wakeup.next(): the interval of RETRANSMIT_TIME.
RetransmitTick ==
    /\ task = "main_loop"
    /\ selecting
    /\ timer >= TickQuanta
    /\ budget.ticks < budget.limit.ticks
    /\ budget' = [budget EXCEPT !.ticks = @ + 1]
    /\ last' = Did("tick", NoPacket)
    /\ LET s == RetransmitWakeup(Self, budget.ticks + 1)
       IN  AfterHandler(s) /\ timer' = TimerAfter(s, timer - TickQuanta)
    /\ UNCHANGED <<reconnect, initial_session_id, connect_result, rx_log>>

(***************************************************************************)
(* Time passes by one quantum.  A timer that is due fires before time      *)
(* goes on and before the other arms of the select.                        *)
(***************************************************************************)
TimerLimit ==
    CASE task = "main_loop" -> TickQuanta
      [] task = "handshake" -> Quanta(INIT_TIMEOUT)
      [] task = "reconnect_wait" -> Quanta(RECONNECT_DELAY)
      [] OTHER -> 0

Elapse(elapsed, limit) == Min(elapsed + 1, limit)

AdvanceTime ==
    /\ timer < TimerLimit
    /\ task = "main_loop" /\ timer + 1 >= TickQuanta => budget.ticks < budget.limit.ticks
    /\ task = "reconnect_wait" => budget.connects < budget.limit.connects
    /\ timer' = timer + 1
    /\ Commit([Self EXCEPT
           !.last_rx_time = Elapse(@, Quanta(MAX_RX_QUEUE_TIME)),
           !.ack_queue = [i \in 1..Len(@) |->
               [@[i] EXCEPT !.last_attempt =
                    Elapse(@, Quanta(RETRANSMIT_TIME))]]])
    /\ last' = Did("time", NoPacket)
    /\ UNCHANGED <<task, reconnect, initial_session_id, connect_result,
                   loop_result, rx_log, budget>>

(***************************************************************************)
(* The state task: it takes the packets of its channel one at a time and   *)
(* applies their atoms to the state mirror.  The task that initialise()    *)
(* spawned for connect_udp() signals it when InitialisationComplete is     *)
(* applied.  An error of update_state ends the task, and the receiver of   *)
(* its channel is dropped.                                                 *)
(***************************************************************************)
\* What the session task and the application leave as it is in a step of
\* another task.
Untouched ==
    UNCHANGED <<task, reconnect, initial_session_id, timer, connect_result,
                loop_result, rx_log>>

\* Payload::Version
Version(major, minor) ==
    [kind |-> "Version", id |-> 0, major |-> major, minor |-> minor]

\* A check that takes every minor version from 30.
CheckFirmwareVersionFrom30(ver) == ver.major = 2 /\ ver.minor >= 30

\* Version::check_firmware_version
CheckFirmwareVersion(ver) ==
    ~(ver.major # 2 \/ ver.minor < 30 \/ ver.minor > 31)

RECURSIVE UpdateState(_, _)
\* AtemState::update_state: <<state, result>>
UpdateState(st, atoms) ==
    IF atoms = <<>> THEN <<st, "Ok">>
    ELSE LET a == Head(atoms)
         IN  IF a.kind = "Version"
             THEN IF CheckFirmwareVersion(a)
                  THEN UpdateState([st EXCEPT !.version = <<a.major, a.minor>>],
                                   Tail(atoms))
                  ELSE <<st, "UnsupportedFirmwareVersion">>
             ELSE IF a.kind = "InitialisationComplete"
             THEN UpdateState([st EXCEPT !.initialisation_complete = TRUE],
                              Tail(atoms))
             ELSE UpdateState([st EXCEPT !.events = @ + 1], Tail(atoms))

StateTask ==
    /\ state_task = "running"
    /\ tx # <<>>
    /\ LET r == UpdateState(state, Head(tx).atoms)
       IN  IF r[2] # "Ok"
           THEN Commit([Self EXCEPT !.state = r[1], !.state_task = "failed",
                                    !.tx = <<>>])
           ELSE Commit([Self EXCEPT
                    !.state = r[1], !.tx = Tail(@),
                    !.facade = IF /\ @ = "none"
                                  /\ budget.connects = 1
                                  /\ r[1].initialisation_complete
                               THEN "initialised" ELSE @])
    /\ last' = Did("state_task", NoPacket)
    /\ Untouched
    /\ UNCHANGED budget

(***************************************************************************)
(* The application: connect_udp() returns the AtemController when the      *)
(* state task has seen InitialisationComplete; AtemController::send puts a *)
(* command with a responder into the command channel; the AtemController   *)
(* is dropped.                                                             *)
(***************************************************************************)
ConnectUdpReturns ==
    /\ facade = "initialised"
    /\ Commit([Self EXCEPT !.facade = "alive"])
    /\ last' = Did("connected", NoPacket)
    /\ Untouched
    /\ UNCHANGED budget

\* What run() returns: the error of the state task if it returned one,
\* and else what main_loop() returned.  update_state has one error,
\* UnsupportedFirmwareVersion; a panic of the session task is a JoinError,
\* which connect_udp() takes for Internal.
RunResult ==
    IF state_task = "failed" THEN "UnsupportedFirmwareVersion"
    ELSE IF loop_result = "panic" THEN "Internal"
    ELSE loop_result

\* connect_udp() returns the error of run(): the state task is gone
\* without the signal of InitialisationComplete, and run() has returned.
ConnectUdpFails ==
    /\ facade = "none"
    /\ connect_result = "Ok"
    /\ task = "done"
    /\ Commit([Self EXCEPT !.facade = "failed"])
    /\ connect_result' = RunResult
    /\ last' = Did("connect_failed", NoPacket)
    /\ UNCHANGED <<task, reconnect, initial_session_id, timer, loop_result,
                   rx_log, budget>>

\* cmd_tx.send(async_cmd) of command n: it fails with ChannelUnavailable
\* when the receiver is gone.
SendCommand(s, n) ==
    IF task = "done"
    THEN Resolve(s, <<"cmd", n>>, "ChannelUnavailable")
    ELSE [s EXCEPT !.cmd_rx =
              Append(@, Commands(<<Atom("Command", n)>>, <<"cmd", n>>))]

FacadeSend ==
    /\ facade = "alive"
    /\ Len(cmd_rx) < COMMAND_CHANNEL_SIZE
    /\ budget.cmds < budget.limit.cmds
    /\ budget' = [budget EXCEPT !.cmds = @ + 1]
    /\ Commit(SendCommand(Self, budget.cmds + 1))
    /\ last' = Did("send", NoPacket)
    /\ Untouched

DropFacade ==
    /\ facade = "alive"
    /\ Commit([Self EXCEPT !.facade = "dropped"])
    /\ last' = Did("drop", NoPacket)
    /\ Untouched
    /\ UNCHANGED budget

(***************************************************************************)
(* Storage locks and the application: it asks for the lock of a store      *)
(* (request n), and the caller of request n drops its Arc; the drop of the *)
(* last Arc of a StorageLock closes its semaphore and spawns a task that   *)
(* sends MediaPoolLock::unlock into the command channel.                   *)
(***************************************************************************)
\* send_ex(AsyncCommand::StorageLock { store_id, responder })
FacadeLock(store_id) ==
    /\ facade = "alive"
    /\ Len(cmd_rx) < COMMAND_CHANNEL_SIZE
    /\ budget.cmds < budget.limit.cmds
    /\ budget' = [budget EXCEPT !.cmds = @ + 1]
    /\ LET responder == <<"lock", budget.cmds + 1>>
       IN  Commit(IF task = "done"
                  THEN Resolve(Self, responder, "ChannelUnavailable")
                  ELSE [Self EXCEPT !.cmd_rx =
                           Append(@, StorageLock(store_id, responder))])
    /\ last' = Did("lock", NoPacket)
    /\ Untouched

\* The Arcs that were handed over in a request.
HandedOver ==
    {x.storage_lock : x \in uploads \cup finished_uploads \cup downloads}
    \cup {cmd_rx[i].req.storage_lock :
             i \in {j \in 1..Len(cmd_rx) :
                       cmd_rx[j].kind \in {"FileDownload", "FileUpload"}}}

\* The caller of request n drops its Arc of StorageLock h.
DropHolder(n, h) ==
    /\ <<n, h>> \in held \ HandedOver
    /\ LET s == [Self EXCEPT !.held = @ \ {<<n, h>>}]
       IN  Commit(IF h \in Alive(s) THEN s ELSE DropStorageLock(s, h))
    /\ last' = Did("drop_lock", NoPacket)
    /\ Untouched
    /\ UNCHANGED budget

DropHolders == \E pr \in held : DropHolder(pr[1], pr[2])

\* The task of StorageLock::drop: cmd_tx.send of the unlock; the task
\* panics when the receiver is gone.
UnlockTask(i) ==
    /\ task = "done" \/ Len(cmd_rx) < COMMAND_CHANNEL_SIZE
    /\ LET s == [Self EXCEPT !.unlock_tasks =
                    SubSeq(@, 1, i - 1) \o SubSeq(@, i + 1, Len(@))]
       IN  Commit(IF task = "done" THEN s
                  ELSE [s EXCEPT !.cmd_rx = Append(@,
                           Commands(<<MediaPoolLock(unlock_tasks[i], FALSE)>>,
                                    NoResponder))])
    /\ last' = Did("unlock_task", NoPacket)
    /\ Untouched
    /\ UNCHANGED budget

UnlockTasks == \E i \in 1..Len(unlock_tasks) : UnlockTask(i)

(***************************************************************************)
(* The arm of the select! for upload_chunk_params_rx, and the workers of   *)
(* the uploads.  A worker holds the permit of its upload's Semaphore from  *)
(* the permit it awaits until it returns.                                  *)
(***************************************************************************)
\* Some(params) = upload_chunk_params_rx.recv()
ChunkParams ==
    /\ task = "main_loop"
    /\ selecting
    /\ timer < TickQuanta
    /\ upload_chunk_params_rx # <<>>
    /\ last' = Did("chunk_params", NoPacket)
    /\ LET s == HandleFileTransferChunkParams(
                    [Self EXCEPT !.upload_chunk_params_rx = Tail(@)],
                    Head(upload_chunk_params_rx))
       IN  AfterHandler(s) /\ timer' = TimerAfter(s, timer)
    /\ UNCHANGED <<reconnect, initial_session_id, connect_result, rx_log,
                   budget>>

\* A worker has the permit of the Semaphore.
PermitHeld(s, semaphore) ==
    \E w \in 1..Len(s.workers) :
        /\ s.workers[w].semaphore = semaphore
        /\ s.workers[w].pc \in {"send", "wait", "last_wait"}

RECURSIVE Submitted(_)
\* The commands the workers have given to cmd_tx.
Submitted(ws) == IF ws = <<>> THEN 0 ELSE Head(ws).sent + Submitted(Tail(ws))

\* The worker goes on with its next chunk; after the last one it waits for
\* what is left of the burst and returns.
Continue(worker) ==
    [worker EXCEPT !.pc = IF worker.sent < Len(worker.chunks) THEN "send"
                          ELSE IF worker.burst = <<>> THEN "done"
                          ELSE "last_wait"]

\* permit.await
AcquirePermit(w) ==
    /\ workers[w].pc = "permit"
    /\ ~PermitHeld(Self, workers[w].semaphore)
    /\ Commit([Self EXCEPT !.workers[w] = Continue([@ EXCEPT !.pc = "send"])])
    /\ last' = Did("permit", NoPacket)
    /\ Untouched
    /\ UNCHANGED budget

AcquirePermits == \E w \in 1..Len(workers) : AcquirePermit(w)

\* cmd_tx.send of the next chunk, and burst.push: the worker returns when
\* the receiver is gone.
WorkerSend(w) ==
    /\ workers[w].pc = "send"
    /\ task = "done" \/ Len(cmd_rx) < COMMAND_CHANNEL_SIZE
    /\ LET worker    == workers[w]
           responder == <<"chunk", Submitted(workers) + 1>>
           pushed    == [worker EXCEPT !.sent = @ + 1,
                                       !.burst = Append(@, responder)]
       IN  Commit(IF task = "done"
                  THEN [Self EXCEPT !.workers[w].pc = "done"]
                  ELSE [Self EXCEPT
                           !.cmd_rx = Append(@,
                               Commands(<<worker.chunks[worker.sent + 1]>>,
                                        responder)),
                           !.workers[w] =
                               IF Len(pushed.burst) >= UPLOAD_BURST_SIZE
                               THEN [pushed EXCEPT !.pc = "wait"]
                               ELSE Continue(pushed)])
    /\ last' = Did("worker_send", NoPacket)
    /\ Untouched
    /\ UNCHANGED budget

WorkerSends == \E w \in 1..Len(workers) : WorkerSend(w)

\* wait_for_acks: recv_rx.await of the first receiver of burst.drain(..).
\* An error ends the drain, which drops the receivers that are left; the
\* worker then leaves its loop, waits for the acks of an empty burst and
\* drops the permit.
WorkerWait(w) ==
    /\ workers[w].pc \in {"wait", "last_wait"}
    /\ workers[w].burst # <<>>
    /\ \E result \in ResultsOf(Self, Head(workers[w].burst)) :
         LET worker == workers[w]
             popped == [worker EXCEPT !.burst = Tail(@)]
         IN  Commit([Self EXCEPT !.workers[w] =
                 IF result # "Ok"
                 THEN [worker EXCEPT !.burst = <<>>, !.pc = "done"]
                 ELSE IF popped.burst # <<>> THEN popped
                 ELSE IF worker.pc = "wait" THEN Continue(popped)
                 ELSE [popped EXCEPT !.pc = "done"]])
    /\ last' = Did("worker_wait", NoPacket)
    /\ Untouched
    /\ UNCHANGED budget

WorkerWaits == \E w \in 1..Len(workers) : WorkerWait(w)

(***************************************************************************)
(* Transfers and the application: the caller of lock request n, who holds  *)
(* an Arc of the StorageLock and has seen it available, hands it over in   *)
(* the request of an upload or of a download; it may drop the Receiver of  *)
(* a download.                                                             *)
(***************************************************************************)
\* The stream of the uploads of the application: one chunk of 32 bytes.
StillImage == <<Word(7), Word(7), Word(7), Word(7)>>

\* send_ex(cmd) with the request of a transfer, which is dropped when the
\* session task is gone.
SendRequest(cmd, responder) ==
    IF task = "done"
    THEN DropRequests(Resolve(Self, responder, "ChannelUnavailable"),
                      {<<NoResponder, cmd.req.storage_lock>>})
    ELSE [Self EXCEPT !.cmd_rx = Append(@, cmd)]

\* upload_still_image, from send_ex(AsyncCommand::FileUpload(req)) on.
FacadeUpload(n, h) ==
    /\ facade = "alive"
    /\ <<n, h>> \in held \ HandedOver
    /\ locks[h].waiters = "available"
    /\ task = "done" \/ Len(cmd_rx) < COMMAND_CHANNEL_SIZE
    /\ Commit(SendRequest(
           FileUpload(AsyncFileUploadRequest(0, StillImage, n + 1,
                                             <<"upload", n>>, <<n, h>>)),
           <<"upload", n>>))
    /\ last' = Did("upload", NoPacket)
    /\ Untouched
    /\ UNCHANGED budget

\* start_file_download, from send_ex(AsyncCommand::FileDownload(req)) on.
FacadeDownload(n, h) ==
    /\ facade = "alive"
    /\ <<n, h>> \in held \ HandedOver
    /\ locks[h].waiters = "available"
    /\ task = "done" \/ Len(cmd_rx) < COMMAND_CHANNEL_SIZE
    /\ Commit(SendRequest(
           FileDownload(AsyncFileDownloadRequest(0, n, <<n, h>>)),
           NoResponder))
    /\ last' = Did("download", NoPacket)
    /\ Untouched
    /\ UNCHANGED budget

FacadeUploads == \E pr \in held : FacadeUpload(pr[1], pr[2])

FacadeDownloads == \E pr \in held : FacadeDownload(pr[1], pr[2])

\* The task that handle_transfer_error spawned: tx.send of the error.
ErrorTask(i) ==
    /\ LET s == [Self EXCEPT !.error_tasks =
                    SubSeq(@, 1, i - 1) \o SubSeq(@, i + 1, Len(@))]
       IN  Commit(IF error_tasks[i].tx \in sink.gone THEN s
                  ELSE SinkSend(s, error_tasks[i].tx,
                                <<"Err", error_tasks[i].code>>))
    /\ last' = Did("error_task", NoPacket)
    /\ Untouched
    /\ UNCHANGED budget

ErrorTasks == \E i \in 1..Len(error_tasks) : ErrorTask(i)

\* The caller of a download that has begun drops the Receiver it was given.
DropSink(n) ==
    /\ n \notin sink.gone
    /\ \E d \in downloads : d.tx = n
    /\ Commit([Self EXCEPT !.sink.gone = @ \cup {n}])
    /\ last' = Did("drop_receiver", NoPacket)
    /\ Untouched
    /\ UNCHANGED budget

DropSinks == \E d \in downloads : DropSink(d.tx)

(***************************************************************************)
(* The task request_clock() spawns, and the arm of the select! for         *)
(* clock_notifier.notified().  notify_waiters() wakes the main loop only   *)
(* where it waits in the select!; no permit is stored.                     *)
(***************************************************************************)
\* The loop is back in its select!.
Select ==
    /\ task = "main_loop"
    /\ ~selecting
    /\ Commit([Self EXCEPT !.selecting = TRUE])
    /\ last' = Did("select", NoPacket)
    /\ Untouched
    /\ UNCHANGED budget

\* The task of probe n has the result of its responder.
ClockTask(n) ==
    /\ n \in clock_tasks
    /\ ResultsOf(Self, <<"clock", n>>) # {}
    /\ last' = Did("clock_task", NoPacket)
    /\ LET s == [Self EXCEPT !.clock_tasks = @ \ {n}]
       IN  IF n \in Woken(Self) /\ task = "main_loop" /\ selecting
           THEN /\ AfterHandler(Ret(s, "Timeout"))
                /\ timer' = 0
                /\ UNCHANGED <<reconnect, initial_session_id, connect_result,
                               rx_log>>
           ELSE Commit(s) /\ Untouched
    /\ UNCHANGED budget

ClockTasks == \E n \in clock_tasks : ClockTask(n)


(***************************************************************************)
(* The session from its construction: AtemReceiver::new, then initialise() *)
(* and the main loop.                                                      *)
(***************************************************************************)
\* Nothing has happened yet; the behaviour is followed for so many
\* packets, commands, ticks and calls of initialise().
Budget(recv, cmds, ticks, connects) ==
    [recv |-> 0, cmds |-> 0, ticks |-> 0, connects |-> 0,
     limit |-> [recv |-> recv, cmds |-> cmds, ticks |-> ticks,
                connects |-> connects]]

Init ==
    /\ task = "new"
    /\ reconnect \in BOOLEAN
    /\ session_id = 0
    /\ initial_session_id = 0
    /\ rx_queue = <<>>
    /\ last_rx_time = 0
    /\ next_pkt_forward = 1
    /\ sender_packet_id = 1
    /\ ack_queue = <<>>
    /\ initialisation_complete = FALSE
    /\ disconnected = FALSE
    /\ timer = 0
    /\ connect_result = "pending"
    /\ loop_result = "None"
    /\ wire = <<>>
    /\ forwarded = <<>>
    /\ responses = <<>>
    /\ facade = "none"
    /\ cmd_rx = <<>>
    /\ selecting = TRUE
    /\ clock_tasks = {}
    /\ tx = <<>>
    /\ state_task = "none"
    /\ state = DefaultState
    /\ storage_locks = {}
    /\ owned_storage_locks = {}
    /\ locks = <<>>
    /\ held = {}
    /\ unlock_tasks = <<>>
    /\ uploads = {}
    /\ finished_uploads = {}
    /\ upload_chunk_params_rx = <<>>
    /\ workers = <<>>
    /\ downloads = {}
    /\ sink = NoSink
    /\ error_tasks = <<>>
    /\ rx_log = <<>>
    /\ last = Did("new", NoPacket)
    /\ budget = Budget(ConnRecv, ConnCmds, ConnTicks, MaxConnects)

\* An event of the switcher, in a packet of its own.
EventPacket(flags, session, acked, sender, kind) ==
    NewAtoms(flags, session, acked, 0, sender, <<Atom(kind, 0)>>)

\* What the peer may send to an established session: the next packet of
\* its sequence, with or without InitialisationComplete, Disconnect, and a
\* control packet that has no place there.
SessionPackets ==
    {EventPacket({"ack"}, session_id, 0, next_pkt_forward, k) :
        k \in {"Event", "InitialisationComplete"}}
    \cup {NewControl({"control"}, session_id, 0, 0, 0, c) :
        c \in {"Disconnect", "ConnectNack"}}

SessionIncomingPacket == \E resp \in SessionPackets : IncomingPacket(resp)

Next ==
    \/ Initialise
    \/ HandshakeRecv
    \/ HandshakeTimeout
    \/ StateTask
    \/ ConnectUdpReturns
    \/ FacadeSend
    \/ QueuedCommand
    \/ SessionIncomingPacket
    \/ RetransmitTick
    \/ AdvanceTime

Spec == Init /\ [][Next]_vars

(***************************************************************************)
(* An established session whose peer sends sequenced packets in any        *)
(* order, some of them more than once, some of them never.                 *)
(***************************************************************************)
\* The session id of the established sessions.
EstablishedSessionId == SESSION_HIGH_BIT + 2

\* Values of next_pkt_forward the session starts from: the first of a
\* session, and the last before RX_QUEUE_OVERFLOW_MARGIN.
RxStarts == {1, RX_QUEUE_OVERFLOW_MARGIN - 1}

\* The packets from..to of the peer's sequence.
PeerPackets(from, to) ==
    [i \in 1..(to - from + 1) |->
        EventPacket({"ack"}, EstablishedSessionId, 0, from + i - 1, "Event")]

InMainLoop ==
    /\ task = "main_loop"
    /\ session_id = EstablishedSessionId
    /\ initial_session_id = 1
    /\ last_rx_time = 0
    /\ initialisation_complete = FALSE
    /\ disconnected = FALSE
    /\ timer = 0
    /\ connect_result = "Ok"
    /\ loop_result = "None"
    /\ wire = <<>>
    /\ forwarded = <<>>
    /\ responses = <<>>
    /\ cmd_rx = <<>>
    /\ selecting = TRUE
    /\ clock_tasks = {}
    /\ tx = <<>>
    /\ state_task = "running"
    /\ state = DefaultState
    /\ unlock_tasks = <<>>
    /\ finished_uploads = {}
    /\ upload_chunk_params_rx = <<>>
    /\ sink = NoSink
    /\ error_tasks = <<>>
    /\ rx_log = <<>>
    /\ last = Did("new", NoPacket)

\* No storage lock was asked for.
NoLocks ==
    /\ storage_locks = {}
    /\ owned_storage_locks = {}
    /\ locks = <<>>
    /\ held = {}

\* The caller of request 1 has the lock of store 0, which the peer has
\* granted, and the transfer it asked the lock for has it now.
LockHeld ==
    /\ storage_locks = {0}
    /\ owned_storage_locks = {<<0, 1>>}
    /\ locks = <<[store_id |-> 0, waiters |-> "available"]>>
    /\ held = {<<1, 1>>}

\* A session in its main loop with no command outstanding and no upload
\* in progress, whose application has the controller.
Running ==
    /\ InMainLoop
    /\ NoLocks
    /\ facade = "alive"
    /\ ack_queue = <<>>
    /\ uploads = {}
    /\ workers = <<>>
    /\ downloads = {}

\* The same, of a receiver that does not reconnect.
Established == Running /\ reconnect = FALSE

\* The reorder buffer is empty, or the peer's packet next_pkt_forward was
\* lost and all but one of the MAX_RX_QUEUE_LENGTH packets after it came.
InitRx ==
    /\ Established
    /\ budget = [Budget(RxRecv, 0, RxTicks, 1) EXCEPT !.connects = 1]
    /\ sender_packet_id = 1
    /\ next_pkt_forward \in RxStarts
    /\ \/ rx_queue = <<>>
       \/ /\ next_pkt_forward = 1
          /\ rx_queue = PeerPackets(2, MAX_RX_QUEUE_LENGTH)

\* The sender_packet_ids the peer may send next.
RxIds ==
    {n \in (next_pkt_forward - 1)..(next_pkt_forward + IdWindow) :
        n >= 0 /\ n <= MAX_PACKET_ID}
    \cup (IF rx_queue = <<>> THEN {}
          ELSE {rx_queue[Len(rx_queue)].sender_packet_id + 1})

\* The peer asks for an acknowledgement of its packets; one that asks for
\* none is there too.
RxPackets ==
    {EventPacket({"ack"}, session_id, 0, n, "Event") : n \in RxIds}
    \cup {EventPacket({}, session_id, 0, next_pkt_forward, "Event")}

RxIncomingPacket == \E resp \in RxPackets : IncomingPacket(resp)

NextRx ==
    \/ RxIncomingPacket
    \/ RetransmitTick
    \/ AdvanceTime

SpecRx == InitRx /\ [][NextRx]_vars

(***************************************************************************)
(* An established session whose application sends commands, and whose peer *)
(* sends its packets in order and acknowledges some of the commands.       *)
(***************************************************************************)
\* Values of sender_packet_id the session starts from: the first of a
\* session, two before MAX_PACKET_ID, and the last of the u16.
TxStarts == {1, MAX_PACKET_ID - 1, U16 - 1}

InitTx ==
    /\ Established
    /\ budget = [Budget(TxRecv, TxCmds, TxTicks, 1) EXCEPT !.connects = 1]
    /\ sender_packet_id \in TxStarts
    /\ next_pkt_forward = 1
    /\ rx_queue = <<>>

\* The ids the peer may acknowledge: those of packets it has not yet
\* acknowledged.
AckIds == {ack_queue[i].pkt.sender_packet_id : i \in 1..Len(ack_queue)}

TxPackets ==
    {NewPacket({"response"}, session_id, a, 0, 0) : a \in AckIds}
    \cup {EventPacket({"ack"}, session_id, 0, next_pkt_forward, "Event")}

TxIncomingPacket == \E resp \in TxPackets : IncomingPacket(resp)

NextTx ==
    \/ FacadeSend
    \/ QueuedCommand
    \/ TxIncomingPacket
    \/ RetransmitTick
    \/ AdvanceTime

SpecTx == InitTx /\ [][NextTx]_vars

(***************************************************************************)
(* The same session within one interval of the retransmit timer: what the  *)
(* commands and the acknowledgements do to sender_packet_id and ack_queue. *)
(***************************************************************************)
InitWrap ==
    /\ Established
    /\ budget = [Budget(WrapRecv, WrapCmds, 0, 1) EXCEPT !.connects = 1]
    /\ sender_packet_id \in TxStarts
    /\ next_pkt_forward = 1
    /\ rx_queue = <<>>

NextWrap ==
    \/ FacadeSend
    \/ QueuedCommand
    \/ TxIncomingPacket

SpecWrap == InitWrap /\ [][NextWrap]_vars

(***************************************************************************)
(* An established session whose peer may end it, whose state task may      *)
(* fail, and whose application may drop the controller: how the main loop  *)
(* ends, and how run() goes on from there.                                 *)
(***************************************************************************)
\* Values of next_pkt_forward the session starts from: the first of a
\* session, and the first after RX_QUEUE_OVERFLOW_MARGIN.
LinkStarts == {1, RX_QUEUE_OVERFLOW_MARGIN + 1}

\* The reorder buffer is empty, or the peer's packet next_pkt_forward was
\* lost and the MAX_RX_QUEUE_LENGTH packets after it came.
InitLink ==
    /\ Running
    /\ reconnect \in BOOLEAN
    /\ budget = [Budget(LinkRecv, 0, LinkTicks, MaxConnects) EXCEPT
                     !.connects = 1]
    /\ sender_packet_id = 1
    /\ next_pkt_forward \in LinkStarts
    /\ \/ rx_queue = <<>>
       \/ /\ next_pkt_forward = 1
          /\ rx_queue = PeerPackets(2, MAX_RX_QUEUE_LENGTH + 1)

\* The firmware versions the peer may report: a supported one, and one
\* after the last that is supported.
LinkVersions == {Version(2, 30), Version(2, 32)}

\* What the peer may send: the next packets of its sequence, its firmware
\* version, and Disconnect for this session and for another.
LinkPackets ==
    {EventPacket({"ack"}, session_id, 0, n, "Event") :
        n \in {next_pkt_forward, next_pkt_forward + 1}}
    \cup {NewAtoms({"ack"}, session_id, 0, 0, next_pkt_forward, <<v>>) :
        v \in LinkVersions}
    \cup {NewControl({"control"}, sid, 0, 0, 0, "Disconnect") :
        sid \in {session_id, session_id - 1}}

LinkIncomingPacket == \E resp \in LinkPackets : IncomingPacket(resp)

NextLink ==
    \/ LinkIncomingPacket
    \/ RetransmitTick
    \/ AdvanceTime
    \/ StateTask
    \/ Initialise
    \/ HandshakeRecv
    \/ HandshakeTimeout

SpecLink == InitLink /\ [][NextLink]_vars

(***************************************************************************)
(* An established session that is left to itself: the peer sends its       *)
(* packets in order and may acknowledge the oldest probe, the tasks of     *)
(* request_clock() run beside the main loop, and the application may drop  *)
(* the controller.                                                         *)
(***************************************************************************)
InitClock ==
    /\ Established
    /\ budget = [Budget(ClockRecv, 0, ClockTicks, 1) EXCEPT !.connects = 1]
    /\ sender_packet_id = 1
    /\ next_pkt_forward = 1
    /\ rx_queue = <<>>

\* The id the peer may acknowledge: that of the oldest outstanding packet.
OldestAckIds ==
    IF ack_queue = <<>> THEN {} ELSE {ack_queue[1].pkt.sender_packet_id}

ClockPackets ==
    {EventPacket({"ack"}, session_id, 0, next_pkt_forward, k) :
        k \in {"Event", "InitialisationComplete"}}
    \cup {NewPacket({"response"}, session_id, a, 0, 0) : a \in OldestAckIds}

ClockIncomingPacket == \E resp \in ClockPackets : IncomingPacket(resp)

NextClock ==
    \/ ClockIncomingPacket
    \/ RetransmitTick
    \/ AdvanceTime
    \/ ClockTasks
    \/ Select
    \/ DropFacade

SpecClock == InitClock /\ [][NextClock]_vars

(***************************************************************************)
(* An established session whose application sends commands while the main  *)
(* loop runs, and whose peer acknowledges them, ends the session, or       *)
(* answers a new handshake or not.                                         *)
(***************************************************************************)
InitOutage ==
    /\ Running
    /\ reconnect \in BOOLEAN
    /\ budget = [Budget(OutageRecv, OutageCmds, OutageTicks, MaxConnects) EXCEPT
                     !.connects = 1]
    /\ sender_packet_id = 1
    /\ next_pkt_forward = 1
    /\ rx_queue = <<>>

OutagePackets ==
    {NewPacket({"response"}, session_id, a, 0, 0) : a \in OldestAckIds}
    \cup {NewControl({"control"}, session_id, 0, 0, 0, "Disconnect")}

OutageIncomingPacket == \E resp \in OutagePackets : IncomingPacket(resp)

\* The application sends its commands while the session is established.
OutageSend == task = "main_loop" /\ FacadeSend

NextOutage ==
    \/ OutageSend
    \/ QueuedCommand
    \/ OutageIncomingPacket
    \/ RetransmitTick
    \/ AdvanceTime
    \/ Initialise
    \/ HandshakeRecv
    \/ HandshakeTimeout

SpecOutage == InitOutage /\ [][NextOutage]_vars

(***************************************************************************)
(* An established session whose application asks for storage locks and     *)
(* drops them, and whose peer reports the locks of the store.              *)
(***************************************************************************)
\* The stores the application asks for: the store of the stills, and the
\* first id that is out of range.
LockStores == {0, 64}

InitLock ==
    /\ Established
    /\ budget = [Budget(LockRecv, LockCmds, 0, 1) EXCEPT !.connects = 1]
    /\ sender_packet_id = 1
    /\ next_pkt_forward = 1
    /\ rx_queue = <<>>

FacadeLocks == \E store_id \in LockStores : FacadeLock(store_id)

\* What the peer may send: the next packet of its sequence, with
\* LockObtained or MediaPoolLockStatus of the store of the stills.
LockPackets ==
    {NewAtoms({"ack"}, session_id, 0, 0, next_pkt_forward, <<a>>) :
        a \in {LockObtained(0), MediaPoolLockStatus(0, TRUE),
                MediaPoolLockStatus(0, FALSE)}}

LockIncomingPacket == \E resp \in LockPackets : IncomingPacket(resp)

NextLock ==
    \/ FacadeLocks
    \/ QueuedCommand
    \/ LockIncomingPacket
    \/ DropHolders
    \/ UnlockTasks

SpecLock == InitLock /\ [][NextLock]_vars

(***************************************************************************)
(* A session that reconnects while the application holds the lock of the   *)
(* stills.                                                                 *)
(***************************************************************************)
InitRelock ==
    /\ Running
    /\ reconnect = TRUE
    /\ budget = [Budget(RelockRecv, 1, RelockTicks, MaxConnects) EXCEPT
                     !.connects = 1]
    /\ sender_packet_id = 1
    /\ next_pkt_forward = 1
    /\ rx_queue = <<>>

\* What the peer may send to the session: the next packet of its sequence
\* with LockObtained or MediaPoolLockStatus of the stills, or Disconnect.
RelockPackets ==
    {NewAtoms({"ack"}, session_id, 0, 0, next_pkt_forward, <<a>>) :
        a \in {LockObtained(0), MediaPoolLockStatus(0, FALSE)}}
    \cup {NewControl({"control"}, session_id, 0, 0, 0, "Disconnect")}

RelockIncomingPacket == \E resp \in RelockPackets : IncomingPacket(resp)

\* The application asks for the lock once, in the first session.
RelockRequest == task = "main_loop" /\ budget.connects = 1 /\ FacadeLock(0)

\* The callers drop their handles while a session is established.
RelockDrop == task = "main_loop" /\ DropHolders

\* The peer answers the Connect with its ConnectAck before any time has
\* passed.
RelockHandshakeRecv ==
    /\ task = "handshake"
    /\ timer = 0
    /\ budget.recv < budget.limit.recv
    /\ budget' = [budget EXCEPT !.recv = @ + 1]
    /\ \E resp \in {ConnectAck(initial_session_id, 0, s) :
                        s \in ConnectAckSessionIds} :
         /\ last' = Did("handshake_recv", resp)
         /\ HandshakeTurn(resp)

NextRelock ==
    \/ RelockRequest
    \/ QueuedCommand
    \/ RelockIncomingPacket
    \/ RetransmitTick
    \/ AdvanceTime
    \/ Initialise
    \/ RelockHandshakeRecv
    \/ RelockDrop
    \/ UnlockTasks

SpecRelock == InitRelock /\ [][NextRelock]_vars

(***************************************************************************)
(* An upload of a run-length encoded stream: the peer's chunk-params, the  *)
(* chunks the handler builds from the stream, and the worker that hands    *)
(* them to the session task.                                               *)
(***************************************************************************)
\* The items of an encoded stream: a word that is not the marker, or the
\* marker with a count and a value.  The marker as a word of the image is
\* encoded as (marker, 1, marker).
RleItems ==
    {<<Word(7)>>, <<RLE_MARKER, Word(2), Word(0)>>,
     <<RLE_MARKER, Word(1), RLE_MARKER>>, <<RLE_MARKER, RLE_MARKER, Word(0)>>}

RECURSIVE RleStreams(_)
\* The streams of n items.
RleStreams(n) ==
    IF n = 0 THEN {<<>>}
    ELSE {item \o stream : item \in RleItems, stream \in RleStreams(n - 1)}

\* What the peer may put in its chunk-params.
ChunkSizes == {16, 24, 32, 44, 2100}
ChunkCounts == {1, 200}

InitChunk ==
    /\ InMainLoop
    /\ LockHeld
    /\ downloads = {}
    /\ facade = "alive"
    /\ reconnect = FALSE
    /\ budget = [Budget(ChunkRecv, 0, 0, 1) EXCEPT !.connects = 1]
    /\ sender_packet_id = 1
    /\ next_pkt_forward = 1
    /\ rx_queue = <<>>
    /\ ack_queue = <<>>
    /\ \E n \in 1..ChunkItems : \E buffer \in RleStreams(n) :
         uploads = {AsyncFileUploadRequest(UploadId, buffer, 1,
                                           <<"upload", 1>>, <<1, 1>>)}
    /\ workers = <<>>

ChunkPackets ==
    {NewAtoms({"ack"}, session_id, 0, 0, next_pkt_forward,
              <<FileTransferChunkParams(UploadId, chunk_size, chunk_count)>>) :
        chunk_size \in ChunkSizes, chunk_count \in ChunkCounts}

ChunkIncomingPacket == \E resp \in ChunkPackets : IncomingPacket(resp)

NextChunk ==
    \/ ChunkIncomingPacket
    \/ ChunkParams
    \/ AcquirePermits
    \/ WorkerSends
    \/ QueuedCommand

SpecChunk == InitChunk /\ [][NextChunk]_vars

(***************************************************************************)
(* An upload through its rounds: the peer sends chunk-params several       *)
(* times, each allowing some chunks of the stream.                         *)
(***************************************************************************)
RoundSizes == {32, 44}
RoundCounts == {0, 1, 2}

InitRounds ==
    /\ InMainLoop
    /\ LockHeld
    /\ downloads = {}
    /\ facade = "alive"
    /\ reconnect = FALSE
    /\ budget = [Budget(RoundsRecv, 0, 0, 1) EXCEPT !.connects = 1]
    /\ sender_packet_id = 1
    /\ next_pkt_forward = 1
    /\ rx_queue = <<>>
    /\ ack_queue = <<>>
    /\ \E n \in 1..ChunkItems : \E buffer \in RleStreams(n) :
         uploads = {AsyncFileUploadRequest(UploadId, buffer, 1,
                                           <<"upload", 1>>, <<1, 1>>)}
    /\ workers = <<>>

RoundsPackets ==
    {NewAtoms({"ack"}, session_id, 0, 0, next_pkt_forward,
              <<FileTransferChunkParams(UploadId, chunk_size, chunk_count)>>) :
        chunk_size \in RoundSizes, chunk_count \in RoundCounts}

RoundsIncomingPacket == \E resp \in RoundsPackets : IncomingPacket(resp)

NextRounds == RoundsIncomingPacket \/ ChunkParams

SpecRounds == InitRounds /\ [][NextRounds]_vars

(***************************************************************************)
(* An upload whose first burst is out: the peer asked for UPLOAD_BURST_SIZE *)
(* chunks of 32 bytes, the worker has handed them to the session task and  *)
(* waits for their acks, and none has come in three intervals of the       *)
(* retransmit timer while the peer's own packets came.  The first chunk    *)
(* was sent just before a tick of the timer and the others just after it,  *)
(* or all were sent within the same interval.  The variables that record   *)
(* the past of a behaviour record what happens from this state on.         *)
(***************************************************************************)
\* The stream left when the first burst is built: UploadRest chunks.
UploadBuffer ==
    [i \in 1..(4 * (UPLOAD_BURST_SIZE + UploadRest)) |-> Word(7)]

\* The upload when its first chunk-params came, and what the handler built.
FirstBurst ==
    BuildChunks([AsyncFileUploadRequest(UploadId, UploadBuffer, 1,
                                        <<"upload", 1>>, <<1, 1>>)
                     EXCEPT !.chunk_size = 32,
                            !.chunks_remaining = UPLOAD_BURST_SIZE],
                Mtu(32), <<>>)

\* The entry of ack_queue for chunk n of the first burst, which has been
\* retransmitted just now and has retry_limit retransmissions left.
FirstBurstWaiting(n, retry_limit) ==
    [Waiting(NewAtoms({"ack"}, EstablishedSessionId, 0, 0, n,
                      <<FirstBurst[2][n]>>), <<"chunk", n>>)
        EXCEPT !.retry_limit = retry_limit]

InitUpload ==
    /\ InMainLoop
    /\ LockHeld
    /\ downloads = {}
    /\ facade = "alive"
    /\ reconnect = FALSE
    /\ budget = [Budget(UploadRecv, 0, UploadTicks, 1) EXCEPT !.connects = 1]
    /\ sender_packet_id = UPLOAD_BURST_SIZE + 1
    /\ next_pkt_forward = 1
    /\ rx_queue = <<>>
    /\ uploads = {FirstBurst[1]}
    /\ workers = <<[Worker(FirstBurst[1], FirstBurst[2]) EXCEPT
                       !.sent = UPLOAD_BURST_SIZE,
                       !.burst = [n \in 1..UPLOAD_BURST_SIZE |->
                                     <<"chunk", n>>],
                       !.pc = "wait"]>>
    /\ \E first \in {RETRANSMIT_LIMIT - 3, RETRANSMIT_LIMIT - 2} :
         ack_queue = [n \in 1..UPLOAD_BURST_SIZE |->
             FirstBurstWaiting(n, IF n = 1 THEN first
                                  ELSE RETRANSMIT_LIMIT - 2)]

\* What the peer may send: further chunk-params for the upload, and the
\* ack of the oldest or of the newest packet it has not acknowledged.
UploadPackets ==
    {NewAtoms({"ack"}, session_id, 0, 0, next_pkt_forward,
              <<FileTransferChunkParams(UploadId, 32, chunk_count)>>) :
        chunk_count \in ChunkCounts}
    \cup {NewPacket({"response"}, session_id, a, 0, 0) :
             a \in OldestAckIds \cup
                   {ack_queue[i].pkt.sender_packet_id :
                       i \in {Len(ack_queue)} \ {0}}}

UploadIncomingPacket == \E resp \in UploadPackets : IncomingPacket(resp)

NextUpload ==
    \/ UploadIncomingPacket
    \/ ChunkParams
    \/ AcquirePermits
    \/ WorkerSends
    \/ WorkerWaits
    \/ QueuedCommand
    \/ RetransmitTick
    \/ AdvanceTime

SpecUpload == InitUpload /\ [][NextUpload]_vars

(***************************************************************************)
(* The peer's sequence at the end of its id space: next_pkt_forward is the *)
(* last id or one of the ids around it, and the peer sends the packets     *)
(* around next_pkt_forward, those behind it once more and those ahead of   *)
(* it early, and unsequenced acks.  No time passes.                        *)
(***************************************************************************)
EdgeStarts == {MAX_PACKET_ID - 1, MAX_PACKET_ID, 0, 1}

InitEdge ==
    /\ Established
    /\ budget = [Budget(EdgeRecv, 0, 0, 1) EXCEPT !.connects = 1]
    /\ sender_packet_id = 1
    /\ next_pkt_forward \in EdgeStarts
    /\ rx_queue = <<>>

\* The ids around next_pkt_forward in the peer's sequence of 0..0x7FFF.
EdgeIds ==
    {(next_pkt_forward + MAX_PACKET_ID + 1 + d) % (MAX_PACKET_ID + 1) :
        d \in (0 - EdgeWindow)..EdgeWindow}

EdgePackets ==
    {EventPacket({"ack"}, session_id, 0, n, "Event") : n \in EdgeIds}
    \cup {NewPacket({"response"}, session_id, 1, 0, 0)}

EdgeIncomingPacket == \E resp \in EdgePackets : IncomingPacket(resp)

NextEdge == EdgeIncomingPacket

SpecEdge == InitEdge /\ [][NextEdge]_vars

(***************************************************************************)
(* connect_udp() after the handshake: the peer reports its firmware        *)
(* version and ends its dump of the state with InitialisationComplete,     *)
(* and connect_udp() returns the controller or the error of run().         *)
(***************************************************************************)
FirmwareRecv == 2
FirmwareTicks == 1

\* The session is in its main loop and connect_udp() waits.
InitFirmware ==
    /\ InMainLoop
    /\ NoLocks
    /\ downloads = {}
    /\ facade = "none"
    /\ ack_queue = <<>>
    /\ uploads = {}
    /\ workers = <<>>
    /\ reconnect = FALSE
    /\ budget = [Budget(FirmwareRecv, 0, FirmwareTicks, 1) EXCEPT
                     !.connects = 1]
    /\ sender_packet_id = 1
    /\ next_pkt_forward = 1
    /\ rx_queue = <<>>

\* The firmware versions the peer may report: the two that are supported,
\* the minor versions on either side of them, and other major versions.
FirmwareVersions ==
    {Version(2, 29), Version(2, 30), Version(2, 31), Version(2, 32),
     Version(1, 30), Version(3, 31)}

\* What the peer may send: its firmware version alone or after another
\* atom, and a packet with or without InitialisationComplete.
FirmwarePackets ==
    {NewAtoms({"ack"}, session_id, 0, 0, next_pkt_forward, <<v>>) :
        v \in FirmwareVersions}
    \cup {NewAtoms({"ack"}, session_id, 0, 0, next_pkt_forward,
                   <<Atom("Event", 0), v>>) : v \in FirmwareVersions}
    \cup {EventPacket({"ack"}, session_id, 0, next_pkt_forward, k) :
        k \in {"Event", "InitialisationComplete"}}

FirmwareIncomingPacket == \E resp \in FirmwarePackets : IncomingPacket(resp)

NextFirmware ==
    \/ FirmwareIncomingPacket
    \/ StateTask
    \/ ConnectUdpReturns
    \/ ConnectUdpFails
    \/ RetransmitTick
    \/ AdvanceTime

SpecFirmware == InitFirmware /\ [][NextFirmware]_vars

(***************************************************************************)
(* An established session with callers that hold the lock of store 0 and   *)
(* begin transfers, and a peer that sends the atoms of transfers.          *)
(***************************************************************************)
\* The lock of store 0 was asked for by the callers 1..n and the peer has
\* granted it: its MediaPoolLock had the sender_packet_id 1 and is
\* acknowledged.
InitTransfer(n) ==
    /\ InMainLoop
    /\ storage_locks = {0}
    /\ owned_storage_locks = {<<0, 1>>}
    /\ locks = <<[store_id |-> 0, waiters |-> "available"]>>
    /\ held = {<<c, 1>> : c \in 1..n}
    /\ facade = "alive"
    /\ reconnect = FALSE
    /\ ack_queue = <<>>
    /\ uploads = {}
    /\ workers = <<>>
    /\ downloads = {}
    /\ sender_packet_id = 2
    /\ next_pkt_forward = 1
    /\ rx_queue = <<>>

\* The ids a transfer may have.
TransferIds == RandomIds(FileUpload(0))

\* The code of the peer's FileTransferError.
TransferErrorCode == 3

\* The next packet of the peer's sequence, with one atom.
TransferPacket(a) ==
    NewAtoms({"ack"}, session_id, 0, 0, next_pkt_forward, <<a>>)

\* The acknowledgement of all that was sent, if something is outstanding.
TransferAcknowledgements ==
    {NewPacket({"response"}, session_id,
               ack_queue[Len(ack_queue)].pkt.sender_packet_id, 0, 0) :
        i \in {Len(ack_queue)} \ {0}}

(***************************************************************************)
(* Downloads: two callers begin downloads, and the peer sends chunks,      *)
(* TransferCompleted and FileTransferError; every chunk is a byte longer   *)
(* than the packets that came.                                             *)
(***************************************************************************)
DownRecv == 2

InitDown ==
    /\ InitTransfer(2)
    /\ budget = [Budget(DownRecv, 0, 0, 1) EXCEPT !.connects = 1]

DownPackets ==
    {TransferPacket(a) :
        a \in UNION {{TransferChunk(id, [i \in 1..(Len(rx_log) + 1) |-> 1]),
                      TransferCompleted(id),
                      FileTransferError(id, TransferErrorCode)} :
                     id \in TransferIds}}

DownIncomingPacket == \E resp \in DownPackets : IncomingPacket(resp)

NextDown ==
    \/ DownIncomingPacket
    \/ QueuedCommand
    \/ FacadeDownloads
    \/ DropSinks
    \/ ErrorTasks
    \/ UnlockTasks

SpecDown == InitDown /\ [][NextDown]_vars

(***************************************************************************)
(* Acknowledgements: two callers begin downloads, and the peer sends       *)
(* events and chunks of a download, one or two to a packet, with and       *)
(* without the ack flag.                                                   *)
(***************************************************************************)
AckRecv == 2

InitAck ==
    /\ InitTransfer(2)
    /\ budget = [Budget(AckRecv, 0, 0, 1) EXCEPT !.connects = 1]

\* What a packet of the peer may hold.
AckAtoms ==
    LET chunk == TransferChunk(UploadId, <<1>>)
    IN  {<<Atom("Event", 0)>>, <<chunk>>, <<chunk, chunk>>,
         <<chunk, Atom("Event", 0)>>}

AckPackets ==
    {NewAtoms(flags, session_id, 0, 0, next_pkt_forward, atoms) :
        flags \in {{}, {"ack"}}, atoms \in AckAtoms}

AckIncomingPacket == \E resp \in AckPackets : IncomingPacket(resp)

NextAck == AckIncomingPacket \/ QueuedCommand \/ FacadeDownloads

SpecAck == InitAck /\ [][NextAck]_vars

(***************************************************************************)
(* A session whose peer has stopped acknowledging: MAX_ACK_QUEUE_LENGTH    *)
(* commands, or one less, are outstanding, each with a caller that waits.  *)
(* The peer completes the initialisation, so that the ticks send probes,   *)
(* and the application sends more commands.                                *)
(***************************************************************************)
FullCmds == 2

FullTicks == 1

\* The commands 1..n, outstanding and just sent.
OutstandingCommands(n) ==
    [i \in 1..n |->
        Waiting(NewAtoms({"ack"}, EstablishedSessionId, 0, 0, i,
                         <<Atom("Command", i)>>),
                <<"old", i>>)]

InitFull ==
    /\ InMainLoop
    /\ NoLocks
    /\ facade = "alive"
    /\ reconnect = FALSE
    /\ uploads = {}
    /\ workers = <<>>
    /\ downloads = {}
    /\ budget = [Budget(1, FullCmds, FullTicks, 1) EXCEPT !.connects = 1]
    /\ next_pkt_forward = 1
    /\ rx_queue = <<>>
    /\ \E n \in {MAX_ACK_QUEUE_LENGTH - 1, MAX_ACK_QUEUE_LENGTH} :
         /\ ack_queue = OutstandingCommands(n)
         /\ sender_packet_id = n + 1

FullPackets ==
    {EventPacket({"ack"}, session_id, 0, next_pkt_forward,
                 "InitialisationComplete")}

FullIncomingPacket == \E resp \in FullPackets : IncomingPacket(resp)

NextFull ==
    \/ FullIncomingPacket
    \/ FacadeSend
    \/ QueuedCommand
    \/ RetransmitTick
    \/ AdvanceTime
    \/ ClockTasks
    \/ Select

SpecFull == InitFull /\ [][NextFull]_vars

(***************************************************************************)
(* An upload from its request to its end: one of two callers that hold the *)
(* lock uploads a stream of one chunk, the other may drop the lock, and    *)
(* the peer sends chunk-params, TransferCompleted, FileTransferError and   *)
(* its acknowledgements.                                                   *)
(***************************************************************************)
UpRecv == 2

InitUp ==
    /\ InitTransfer(2)
    /\ budget = [Budget(UpRecv, 0, 0, 1) EXCEPT !.connects = 1]

UpPackets ==
    {TransferPacket(a) :
        a \in UNION {{FileTransferChunkParams(id, 32, 1),
                      TransferCompleted(id),
                      FileTransferError(id, TransferErrorCode)} :
                     id \in TransferIds}}
    \cup TransferAcknowledgements

UpIncomingPacket == \E resp \in UpPackets : IncomingPacket(resp)

\* Caller 1 uploads.
FirstUpload == FacadeUpload(1, 1)

\* Caller 2 drops the lock.
SecondDrops == DropHolder(2, 1)

NextUp ==
    \/ UpIncomingPacket
    \/ QueuedCommand
    \/ FirstUpload
    \/ SecondDrops
    \/ UnlockTasks
    \/ ChunkParams
    \/ AcquirePermits
    \/ WorkerSends
    \/ WorkerWaits

SpecUp == InitUp /\ [][NextUp]_vars

(***************************************************************************)
(* Transfer atoms of the peer that meet no transfer of theirs: there is at *)
(* most one download, and the atoms carry its id or another.               *)
(***************************************************************************)
InitStray ==
    /\ InitTransfer(1)
    /\ budget = [Budget(StrayRecv, 0, 0, 1) EXCEPT !.connects = 1]

StrayPackets ==
    {TransferPacket(a) :
        a \in UNION {{TransferChunk(id, <<1>>),
                      TransferCompleted(id),
                      FileTransferError(id, TransferErrorCode),
                      FileTransferChunkParams(id, 32, 1)} :
                     id \in TransferIds}}

StrayIncomingPacket == \E resp \in StrayPackets : IncomingPacket(resp)

NextStray ==
    \/ StrayIncomingPacket
    \/ ChunkParams
    \/ FacadeDownloads
    \/ QueuedCommand
    \/ DropHolders
    \/ UnlockTasks
    \/ DropFacade

SpecStray == InitStray /\ [][NextStray]_vars

(***************************************************************************)
(* A session that reconnects: the peer ends a session with Disconnect, and *)
(* a handshake may fail or succeed.                                        *)
(***************************************************************************)
InitAgain ==
    /\ Running
    /\ reconnect = TRUE
    /\ budget = [Budget(AgainRecv, 0, AgainTicks, AgainConnects) EXCEPT
                     !.connects = 1]
    /\ sender_packet_id = 1
    /\ next_pkt_forward = 1
    /\ rx_queue = <<>>

\* What the peer may send to a session: the next packet of its sequence,
\* or Disconnect.
AgainPackets ==
    {EventPacket({"ack"}, session_id, 0, next_pkt_forward, "Event"),
     NewControl({"control"}, session_id, 0, 0, 0, "Disconnect")}

AgainIncomingPacket == \E resp \in AgainPackets : IncomingPacket(resp)

\* The peer answers the Connect with ConnectAck or ConnectNack before any
\* time has passed.
AgainHandshakeRecv ==
    /\ task = "handshake"
    /\ timer = 0
    /\ budget.recv < budget.limit.recv
    /\ budget' = [budget EXCEPT !.recv = @ + 1]
    /\ \E resp \in {ConnectAck(initial_session_id, 0, s) :
                        s \in ConnectAckSessionIds}
                   \cup {NewControl({"control"}, initial_session_id, 0, 0, 0,
                                    "ConnectNack")} :
         /\ last' = Did("handshake_recv", resp)
         /\ HandshakeTurn(resp)

NextAgain ==
    \/ AgainIncomingPacket
    \/ RetransmitTick
    \/ AdvanceTime
    \/ Initialise
    \/ AgainHandshakeRecv
    \/ HandshakeTimeout

SpecAgain == InitAgain /\ [][NextAgain]_vars

(***************************************************************************)
(* A session that reconnects, and a peer whose firmware version the state  *)
(* task may refuse.                                                        *)
(***************************************************************************)
InitRefuse ==
    /\ Running
    /\ reconnect = TRUE
    /\ budget = [Budget(RefuseRecv, 0, RefuseTicks, MaxConnects) EXCEPT
                     !.connects = 1]
    /\ sender_packet_id = 1
    /\ next_pkt_forward = 1
    /\ rx_queue = <<>>

\* What the peer may send to the session: the next packet of its sequence
\* with a firmware version that is supported or one that is not, or
\* Disconnect.
RefusePackets ==
    {NewAtoms({"ack"}, session_id, 0, 0, next_pkt_forward, <<v>>) :
        v \in {Version(2, 30), Version(1, 30)}}
    \cup {NewControl({"control"}, session_id, 0, 0, 0, "Disconnect")}

RefuseIncomingPacket == \E resp \in RefusePackets : IncomingPacket(resp)

NextRefuse ==
    \/ RefuseIncomingPacket
    \/ StateTask
    \/ RetransmitTick
    \/ AdvanceTime
    \/ Initialise
    \/ AgainHandshakeRecv
    \/ HandshakeTimeout

SpecRefuse == InitRefuse /\ [][NextRefuse]_vars

(***************************************************************************)
(* A peer that sends chunk-params faster than the main loop takes them     *)
(* from upload_chunk_params_rx: packets of one or more of the atoms.       *)
(***************************************************************************)
InitParams ==
    /\ InitTransfer(1)
    /\ budget = [Budget(ParamsRecv, 0, 0, 1) EXCEPT !.connects = 1]

ParamsPackets ==
    {NewAtoms({"ack"}, session_id, 0, 0, next_pkt_forward,
              [i \in 1..n |-> FileTransferChunkParams(UploadId, 32, 1)]) :
        n \in 1..MaxParams}

ParamsIncomingPacket == \E resp \in ParamsPackets : IncomingPacket(resp)

NextParams == ParamsIncomingPacket \/ ChunkParams

SpecParams == InitParams /\ [][NextParams]_vars

(***************************************************************************)
(* Properties of the reorder buffer (SpecRx).                              *)
(***************************************************************************)
\* How many packets of seq have the sender_packet_id n.
CountId(seq, n) ==
    Cardinality({i \in 1..Len(seq) : seq[i].sender_packet_id = n})

\* The sender_packet_ids of the packets of seq.
IdsOf(seq) == {seq[i].sender_packet_id : i \in 1..Len(seq)}

\* The last handler was handle_incoming_packet and it returned Ok.
PacketHandled == last.op = "packet" /\ task = "main_loop"

\* C1: after handle_incoming_packet returns, the reorder buffer holds no
\* packet whose id is next_pkt_forward: the contiguous packets from
\* next_pkt_forward on have all been forwarded (1,3,2 is forwarded as
\* 1,2,3 without a further packet).
NoBufferedNextExpected ==
    PacketHandled =>
        \A i \in 1..Len(rx_queue) :
            rx_queue[i].sender_packet_id # next_pkt_forward

\* The limits of limit_rx_queue are reached.
Stalled ==
    \/ last_rx_time >= Quanta(MAX_RX_QUEUE_TIME)
    \/ Len(rx_queue) >= MAX_RX_QUEUE_LENGTH

\* This step is handle_incoming_packet, given the packet next_pkt_forward
\* of this session while the limits of the queue are not reached.
NextExpectedArrives ==
    /\ task = "main_loop"
    /\ last'.op = "packet"
    /\ last'.resp.session_id = session_id
    /\ last'.resp.sender_packet_id = next_pkt_forward
    /\ ~Stalled

\* C3: for every next_pkt_forward n in 0..0x7FFF, a packet n that arrives
\* is forwarded in that call, and next_pkt_forward becomes
\* (n + 1) mod 0x8000.
NextExpectedForwarded ==
    [][NextExpectedArrives =>
          /\ Len(forwarded') > Len(forwarded)
          /\ forwarded'[Len(forwarded) + 1].sender_packet_id = next_pkt_forward
          /\ next_pkt_forward' = (next_pkt_forward + 1) % (MAX_PACKET_ID + 1)]_vars

\* C6: no sender_packet_id is forwarded to the state mirror more than
\* once, however often and in whatever order the peer sends it.
ForwardedAtMostOnce ==
    \A i, j \in 1..Len(forwarded) :
        i < j => forwarded[i].sender_packet_id # forwarded[j].sender_packet_id

\* A packet came twice and was forwarded.
DuplicateOfForwarded ==
    /\ PacketHandled
    /\ \E n \in IdsOf(forwarded) :
         CountId(rx_log, n) >= 2

\* Acknowledgements of packet n that were sent.
AcksFor(n) ==
    Cardinality({i \in 1..Len(wire) : /\ "response" \in wire[i].flags
                                       /\ wire[i].client_packet_id = 0
                                       /\ wire[i].acked_packet_id = n})

\* Copies of packet n with the ack flag that came.
CopiesToAck(n) ==
    CountId(SelectSeq(rx_log, LAMBDA p : "ack" \in p.flags), n)

\* C7 as stated: every copy that came of a forwarded packet with the ack
\* flag has been acknowledged, a duplicate too (id 5 twice: two
\* acknowledgements).
EveryCopyAcknowledged ==
    PacketHandled =>
        \A n \in IdsOf(forwarded) : AcksFor(n) >= CopiesToAck(n)

\* C7: a packet with the ack flag is acknowledged once, when it is
\* forwarded; a copy of it that comes before or after that is not
\* acknowledged (id 5 twice: one acknowledgement).
ForwardedAcknowledgedOnce ==
    \A n \in IdsOf(forwarded) \cup IdsOf(rx_log)
             \cup {wire[i].acked_packet_id : i \in 1..Len(wire)} :
        AcksFor(n) =
            CountId(SelectSeq(forwarded, LAMBDA p : "ack" \in p.flags), n)

\* A packet with the ack flag came twice, was forwarded and acknowledged
\* once.
DuplicateAcknowledgedOnce ==
    /\ PacketHandled
    /\ \E n \in IdsOf(forwarded) : CopiesToAck(n) >= 2 /\ AcksFor(n) = 1

\* The packets are forwarded in the order of their ids, none left out.
ForwardedInSequence ==
    \A i \in 1..(Len(forwarded) - 1) :
        forwarded[i + 1].sender_packet_id = forwarded[i].sender_packet_id + 1

\* This step is the tick or handle_incoming_packet for a packet of this
\* session.
TickOrPacket ==
    /\ task = "main_loop"
    /\ \/ last'.op = "tick"
       \/ last'.op = "packet" /\ last'.resp.session_id = session_id

FirstSends ==
    SelectSeq(wire, LAMBDA p : HasAtoms(p) /\ "retransmission" \notin p.flags)

\* C2: the sender_packet_ids of the packets sent are those of a 15-bit
\* sequence: each is the one before it plus one, the one after 0x7FFF is
\* 0, and none is above 0x7FFF.
SenderPacketIdIs15Bit ==
    (FirstSends # <<>> /\ FirstSends[1].sender_packet_id <= MAX_PACKET_ID) =>
        \A k \in 2..Len(FirstSends) :
            FirstSends[k].sender_packet_id =
                (FirstSends[k - 1].sender_packet_id + 1) % (MAX_PACKET_ID + 1)

\* Where in the order of sending the packet with this id is.
SendOrder(id) ==
    CHOOSE k \in 1..Len(FirstSends) : FirstSends[k].sender_packet_id = id

\* This step is handle_incoming_packet, which returns Ok, for a response
\* that acknowledges the outstanding packet a.
AckArrives(a) ==
    /\ task = "main_loop"
    /\ task' = "main_loop"
    /\ last'.op = "packet"
    /\ last'.resp.session_id = session_id
    /\ "response" \in last'.resp.flags
    /\ last'.resp.acked_packet_id = a
    /\ a # 0
    /\ a \in {ack_queue[i].pkt.sender_packet_id : i \in 1..Len(ack_queue)}

\* The entries of ack_queue sent no later than packet a, and those sent
\* after it.
SentUpTo(a) ==
    SelectSeq(ack_queue,
              LAMBDA e : SendOrder(e.pkt.sender_packet_id) <= SendOrder(a))

SentAfter(a) ==
    SelectSeq(ack_queue,
              LAMBDA e : SendOrder(e.pkt.sender_packet_id) > SendOrder(a))

\* C4: a response that acknowledges a removes from ack_queue the entries
\* at or before a, those sent before the id wrapped too, signals Ok to the
\* responder of each, and leaves every other entry as it is.
AckResolvesAtOrBefore ==
    [][\A a \in 1..(U16 - 1) :
          AckArrives(a) =>
              /\ ack_queue' = SentAfter(a)
              /\ responses' = responses \o
                     [k \in 1..Len(SentUpTo(a)) |->
                         <<SentUpTo(a)[k].responder, "Ok">>]]_vars

\* Where in responses the commands of the application were signalled
\* success.
Successes ==
    {k \in 1..Len(responses) :
        responses[k][1][1] = "cmd" /\ responses[k][2] = "Ok"}

\* C16: the responders of the application's commands are signalled success
\* in the order the commands were sent, a command whose id was allocated
\* after the wrap to 0 counting as later than one allocated before it.
SuccessInSendOrder ==
    \A i, j \in Successes :
        i < j => responses[i][1][2] < responses[j][1][2]

\* The transmissions of command n.
Transmissions(n) ==
    SelectSeq(wire, LAMBDA p : p.atoms = <<Atom("Command", n)>>)

\* Where in ack_queue command n is.
Outstanding(n) ==
    {i \in 1..Len(ack_queue) : ack_queue[i].pkt.atoms = <<Atom("Command", n)>>}

\* The results the responder of command n was given.
Results(n) ==
    {responses[k][2] : k \in {j \in 1..Len(responses) :
                                  responses[j][1] = <<"cmd", n>>}}

\* The commands handle_queued_command was given.
Transmitted == {n \in 1..budget.cmds : Transmissions(n) # <<>>}

\* C5: a command is transmitted once without and then with the
\* retransmission flag, one time more for each retry it has used; one that
\* has got Timeout has been transmitted four times and is outstanding no
\* more; after a tick no outstanding command is due, so that one without
\* retries left gets Timeout at the first tick at which it is due.
UnackedCommandTimesOut ==
    /\ \A n \in Transmitted :
         LET sent == Transmissions(n)
         IN  /\ Len(sent) >= 1
             /\ Len(sent) <= 4
             /\ "retransmission" \notin sent[1].flags
             /\ \A k \in 2..Len(sent) :
                  /\ "retransmission" \in sent[k].flags
                  /\ sent[k].sender_packet_id = sent[1].sender_packet_id
             /\ \A i \in Outstanding(n) :
                  /\ Len(sent) = 4 - ack_queue[i].retry_limit
                  /\ Results(n) = {}
             /\ Outstanding(n) = {} => Results(n) # {}
             /\ "Timeout" \in Results(n) =>
                  Len(sent) = 4 /\ Outstanding(n) = {}
    /\ (last.op = "tick" /\ task = "main_loop") =>
         \A i \in 1..Len(ack_queue) :
             ack_queue[i].last_attempt < Quanta(RETRANSMIT_TIME)

\* A command has got Timeout.
CommandTimedOut ==
    \E n \in 1..budget.cmds : "Timeout" \in Results(n)

(***************************************************************************)
(* Properties of the handshake (Spec).                                     *)
(***************************************************************************)
\* Where in wire the Connect packets are, and where the last of them is.
Connects == {i \in 1..Len(wire) : wire[i].control = "Connect"}

LastConnect ==
    IF Connects = {} THEN 0
    ELSE CHOOSE i \in Connects : \A j \in Connects : j <= i

\* The reply to ConnectAck: unsequenced, is-response, client_packet_id 0xd4.
IsHandshakeReply(p) ==
    /\ p.flags = {"response"}
    /\ p.client_packet_id = INIT_ACK_CLIENT_PACKET_ID
    /\ p.sender_packet_id = 0
    /\ p.control = "None"
    /\ p.atoms = <<>>

\* s | 0x8000
WithHighBit(s) == IF s >= SESSION_HIGH_BIT THEN s ELSE s + SESSION_HIGH_BIT

\* C9 as stated: every packet sent after ConnectAck has come carries the
\* session id s | 0x8000.
LaterTrafficOnNewSession ==
    task = "main_loop" =>
        \A i \in (LastConnect + 1)..Len(wire) : wire[i].session_id = session_id

\* C9: each call of initialise sends one Connect (is-control, a session id
\* in 1..0x7FFF, client_packet_id 0xb1, sender_packet_id 0); on
\* ConnectAck{s} the session id becomes s | 0x8000 and the reply
\* (is-response, client_packet_id 0xd4, sender_packet_id 0, acknowledging
\* the ConnectAck) is the next packet sent, on the initial session id;
\* every packet after it carries s | 0x8000.
HandshakeEstablishesSession ==
    /\ Cardinality(Connects) = budget.connects
    /\ \A i \in Connects :
         /\ wire[i].flags = {"control"}
         /\ wire[i].session_id \in 1..MAX_INITIAL_SESSION_ID
         /\ wire[i].client_packet_id = CONNECT_CLIENT_PACKET_ID
         /\ wire[i].sender_packet_id = 0
    /\ task = "main_loop" =>
         /\ session_id >= SESSION_HIGH_BIT
         /\ Len(wire) > LastConnect
         /\ IsHandshakeReply(wire[LastConnect + 1])
         /\ wire[LastConnect + 1].session_id = wire[LastConnect].session_id
         /\ \A i \in (LastConnect + 2)..Len(wire) :
              wire[i].session_id = session_id /\ ~IsHandshakeReply(wire[i])
    /\ (last.op = "handshake_recv" /\ task = "main_loop") =>
         /\ session_id = WithHighBit(last.resp.control_arg)
         /\ Len(wire) = LastConnect + 1
         /\ wire[Len(wire)].acked_packet_id = last.resp.sender_packet_id

\* ConnectAck{0x0002} has come and the main loop has sent a packet on the
\* session 0x8002.
TrafficOnEstablishedSession ==
    /\ task = "main_loop"
    /\ session_id = SESSION_HIGH_BIT + 2
    /\ Len(wire) > LastConnect + 1

\* initialise() has failed with e: connect_udp returns e, or run() waits
\* to reconnect; the session id is 0 and the main loop is not entered.
HandshakeFailed(e) ==
    /\ session_id = 0
    /\ \/ task = "done" /\ connect_result = e
       \/ task = "reconnect_wait" /\ connect_result = "Ok"

\* What the handshake has come to after it was given the packet resp.
HandshakeOutcome(resp) ==
    IF resp.session_id # initial_session_id \/ resp.control = "None"
    THEN task = "handshake" /\ session_id = 0
    ELSE IF resp.control = "ConnectAck" THEN task = "main_loop"
    ELSE IF resp.control = "ConnectNack" THEN HandshakeFailed("MixerOverloaded")
    ELSE HandshakeFailed("UnexpectedState")

\* C10: in the handshake ConnectNack on the initial session id fails with
\* MixerOverloaded, another control code but ConnectAck with
\* UnexpectedState, INIT_TIMEOUT without such a packet with Timeout; a
\* packet of another session id or without control payload is skipped;
\* after a failure the session id is 0 and the main loop is not entered.
HandshakeFailures ==
    /\ [](last.op = "handshake_recv" => HandshakeOutcome(last.resp))
    /\ [](last.op = "handshake_timeout" => HandshakeFailed("Timeout"))
    /\ [](task = "handshake" => timer <= Quanta(INIT_TIMEOUT))
    /\ [][last'.op = "handshake_timeout" =>
             task = "handshake" /\ timer = Quanta(INIT_TIMEOUT)]_vars

\* connect_udp has failed with MixerOverloaded on a ConnectNack that came
\* after a packet that was skipped.
ConnectNackAfterSkip ==
    /\ last.op = "handshake_recv"
    /\ last.resp.control = "ConnectNack"
    /\ connect_result = "MixerOverloaded"
    /\ budget.recv >= 2

(***************************************************************************)
(* Properties of the end of a session and of the reconnect (SpecLink).     *)
(***************************************************************************)
\* This step is handle_incoming_packet, given a control Disconnect of this
\* session.
DisconnectArrives ==
    /\ task = "main_loop"
    /\ last'.op = "packet"
    /\ last'.resp.control = "Disconnect"
    /\ last'.resp.session_id = session_id

\* This step sends one packet, a control DisconnectAck of this session
\* with sender_packet_id 0, and takes no sender_packet_id and no place in
\* ack_queue for it.
DisconnectAckSent ==
    /\ Len(wire') = Len(wire) + 1
    /\ SubSeq(wire', 1, Len(wire)) = wire
    /\ wire'[Len(wire')].control = "DisconnectAck"
    /\ wire'[Len(wire')].session_id = session_id
    /\ wire'[Len(wire')].sender_packet_id = 0
    /\ sender_packet_id' = sender_packet_id
    /\ \A i \in 1..Len(ack_queue') : ack_queue'[i].pkt.control = "None"

\* This step ends the main loop with Disconnected, and forwards nothing.
EndsDisconnected ==
    /\ task' # "main_loop"
    /\ loop_result' = "Disconnected"
    /\ forwarded' = forwarded

\* This step ends the sleep that follows a main loop that ended with
\* Disconnected.
LeavesDisconnectedWait ==
    /\ task = "reconnect_wait"
    /\ loop_result = "Disconnected"
    /\ task' # "reconnect_wait"

\* RECONNECT_DELAY has passed, and this step sends Connect and waits for
\* the response.
ConnectStarted ==
    /\ timer >= Quanta(RECONNECT_DELAY)
    /\ task' = "handshake"
    /\ wire' = Append(wire, Connect(initial_session_id'))

EntersMainLoop == task # "main_loop" /\ task' = "main_loop"

\* The fields of the receiver and the state mirror are as initialise()
\* leaves them.
FreshSession ==
    /\ sender_packet_id' = 1
    /\ next_pkt_forward' = 1
    /\ ack_queue' = <<>>
    /\ rx_queue' = <<>>
    /\ ~initialisation_complete'
    /\ storage_locks' = {}
    /\ owned_storage_locks' = {}
    /\ state' = DefaultState

\* C12: with reconnect set, whenever the main loop ends the session task
\* sleeps RECONNECT_DELAY and runs the handshake again, until one succeeds,
\* and only then enters the main loop again; at each entry
\* sender_packet_id and next_pkt_forward are 1, ack_queue, rx_queue and
\* the lock tables are empty, initialisation_complete is false and the
\* state mirror is the default.
ReconnectsAfterEveryEnd ==
    [][reconnect =>
          /\ task = "main_loop" /\ task' # "main_loop" =>
                task' = "reconnect_wait" /\ timer' = 0
          /\ task = "reconnect_wait" /\ task' # "reconnect_wait" =>
                ConnectStarted
          /\ task = "handshake" /\ task' # "handshake" /\ connect_result = "Ok" =>
                task' \in {"reconnect_wait", "main_loop"}
          /\ EntersMainLoop => FreshSession]_vars

(***************************************************************************)
(* Properties of the liveness probes and of the controller's drop          *)
(* (SpecClock).                                                            *)
(***************************************************************************)
\* This step is the arm of the retransmit interval.
TickArrives == task = "main_loop" /\ last'.op = "tick"

\* The probes this step sends.
ProbesSent == clock_tasks' \ clock_tasks

\* An InitialisationComplete atom has been received in this session.
InitialisationCompleteReceived ==
    \E i \in 1..Len(rx_log) :
        /\ rx_log[i].session_id = session_id
        /\ HasInitialisationComplete(rx_log[i])

\* The probes whose responder was given an error or was dropped, and whose
\* task has seen that.
FailedProbes ==
    {n \in 1..budget.ticks :
        /\ n \notin clock_tasks
        /\ ResultsOf(Self, <<"clock", n>>) \ {"Ok"} # {}}

\* C14: no probe is sent before an InitialisationComplete atom was
\* received in the session; after that every tick sends one probe; and
\* when the responder of a probe was given an error or dropped, the main
\* loop ends with Timeout, however the task that waits for the responder
\* and the main loop are interleaved.
ProbeFailureEndsSession ==
    /\ [][/\ ProbesSent # {} => InitialisationCompleteReceived
          /\ TickArrives =>
                Cardinality(ProbesSent) =
                    IF InitialisationCompleteReceived THEN 1 ELSE 0]_vars
    /\ [](FailedProbes # {} => task # "main_loop" /\ loop_result = "Timeout")

\* This step is an iteration of the main loop: one of its handlers runs.
LoopIterates ==
    /\ task = "main_loop"
    /\ last'.op \in {"tick", "packet", "command"}

\* This step sends one packet, a control Disconnect.
DisconnectSent ==
    /\ Len(wire') = Len(wire) + 1
    /\ SubSeq(wire', 1, Len(wire)) = wire
    /\ wire'[Len(wire')].control = "Disconnect"

\* C13: once the application has dropped the controller, the next
\* iteration of the main loop leaves the loop, and the receiver's drop
\* sends exactly one Disconnect; the session task sends no probes and no
\* acknowledgements after that.
DropEndsSession ==
    [][facade = "dropped" /\ LoopIterates =>
          /\ task' = "done"
          /\ DisconnectSent]_vars

(***************************************************************************)
(* Properties of the commands of a session that ends (SpecOutage).         *)
(***************************************************************************)
\* The commands whose responder has been given a result, or was dropped.
Resolved ==
    {n \in 1..budget.cmds :
        \E k \in 1..Len(responses) : responses[k][1] = <<"cmd", n>>}

\* How often the responder of command n was signalled.
TimesResolved(n) ==
    Cardinality({k \in 1..Len(responses) : responses[k][1] = <<"cmd", n>>})

\* The peer has acknowledged the packet of a command that was given Ok.
OkIsAcknowledged ==
    \A n \in 1..budget.cmds :
        "Ok" \in Results(n) =>
            /\ Transmissions(n) # <<>>
            /\ \E i \in 1..Len(rx_log) :
                  /\ "response" \in rx_log[i].flags
                  /\ rx_log[i].acked_packet_id >=
                         Transmissions(n)[1].sender_packet_id

\* This step is initialise(), called to reconnect.
ReconnectBegins == task = "reconnect_wait" /\ task' = "handshake"

\* C15: every command the application has sent is resolved: with Ok when
\* the peer has acknowledged its packet, and at the latest when the
\* session has ended or reconnects; no responder is signalled twice.
CommandsResolve ==
    /\ [](\A n \in 1..budget.cmds : TimesResolved(n) <= 1)
    /\ []OkIsAcknowledged
    /\ [](task = "done" => Resolved = 1..budget.cmds)
    /\ [][ReconnectBegins => Resolved' = 1..budget.cmds]_vars

(***************************************************************************)
(* Properties of the storage locks (SpecLock).                             *)
(***************************************************************************)
\* The StorageLocks of the store that a caller holds.
LiveLocks(store_id) ==
    {h \in Alive(Self) : locks[h].store_id = store_id}

\* The StorageLocks of the store that were dropped.
DroppedLocks(store_id) ==
    {h \in 1..Len(locks) : locks[h].store_id = store_id /\ h \notin Alive(Self)}

\* How many packets of seq carry the atom for the first time.
SentOnce(seq, atom) ==
    Cardinality({i \in 1..Len(seq) :
        seq[i].atoms = <<atom>> /\ "retransmission" \notin seq[i].flags})

\* How many unlocks of the store are on their way to the main loop.
UnlocksPending(store_id) ==
    Cardinality({i \in 1..Len(unlock_tasks) : unlock_tasks[i] = store_id})
    + Cardinality({i \in 1..Len(cmd_rx) :
          /\ cmd_rx[i].kind = "Commands"
          /\ cmd_rx[i].cmds = <<MediaPoolLock(store_id, FALSE)>>})

\* This step is handle_queued_command, given a StorageLock request.
LockRequestHandled ==
    /\ task = "main_loop"
    /\ last'.op = "command"
    /\ cmd_rx # <<>>
    /\ Head(cmd_rx).kind = "StorageLock"

\* C17: a request for the lock of a store of which a StorageLock is still
\* held sends no MediaPoolLock and gives the caller that StorageLock; and
\* one MediaPoolLock with lock = false is sent for each StorageLock whose
\* holders have all dropped it.
LockIsShared ==
    /\ [][LockRequestHandled =>
             LET store_id == Head(cmd_rx).store_id
                 n        == Head(cmd_rx).responder[2]
             IN  LiveLocks(store_id) # {} =>
                     /\ wire' = wire
                     /\ \E h \in LiveLocks(store_id) :
                           held' = held \cup {<<n, h>>}]_vars
    /\ [](\A store_id \in LockStores :
             /\ SentOnce(wire, MediaPoolLock(store_id, FALSE))
                    <= Cardinality(DroppedLocks(store_id))
             /\ task = "main_loop" =>
                    SentOnce(wire, MediaPoolLock(store_id, FALSE))
                        + UnlocksPending(store_id)
                    = Cardinality(DroppedLocks(store_id)))

\* C18: of each store at most one StorageLock is held at a time.
OneLiveLockPerStore ==
    \A store_id \in LockStores : Cardinality(LiveLocks(store_id)) <= 1


(***************************************************************************)
(* Properties of the chunks of an upload (SpecChunk).                      *)
(***************************************************************************)
RECURSIVE WholeItems(_)
\* The payload is a sequence of whole items of the encoded stream: words
\* that are not the marker, and triplets of marker, count and value.
WholeItems(payload) ==
    IF payload = <<>> THEN TRUE
    ELSE IF Len(payload) < 8 THEN FALSE
    ELSE IF SubSeq(payload, 1, 8) = RLE_MARKER
    THEN Len(payload) >= 24 /\ WholeItems(SubSeq(payload, 25, Len(payload)))
    ELSE WholeItems(SubSeq(payload, 9, Len(payload)))

\* The atoms the handler has built for worker w.
ChunksOf(w) == {workers[w].chunks[k] : k \in 1..Len(workers[w].chunks)}

\* C20: every chunk that is built for an upload carries whole items of the
\* source stream, so every triplet of marker, count and value is inside one
\* chunk; a triplet for which the chunk has no room starts the next chunk.
TripletsInOneChunk ==
    \A w \in 1..Len(workers) : \A chunk \in ChunksOf(w) :
        chunk.kind = "TransferChunk" => WholeItems(chunk.payload)

(***************************************************************************)
(* Properties of the bursts of an upload (SpecUpload).                     *)
(***************************************************************************)
\* The chunk packets of the upload that were sent and whose responders are
\* not resolved: a responder is resolved when its entry leaves ack_queue.
UnresolvedChunks ==
    {i \in 1..Len(ack_queue) :
        \E k \in 1..Len(ack_queue[i].pkt.atoms) :
            /\ ack_queue[i].pkt.atoms[k].kind = "TransferChunk"
            /\ ack_queue[i].pkt.atoms[k].id = UploadId}

\* The responder of the n-th chunk the workers gave to the command channel
\* has been given a result.
ChunkResolved(n) == ResultsOf(Self, <<"chunk", n>>) # {}

\* The chunks before the burst of chunk n.
EarlierBursts(n) == 1..((n - 1) - ((n - 1) % UPLOAD_BURST_SIZE))

\* No chunk is given to the command channel before the chunks of the
\* bursts before its own are resolved.
BurstsInTurn ==
    \A n \in 1..Submitted(workers) : \A m \in EarlierBursts(n) :
        ChunkResolved(m)

\* C19: at most UPLOAD_BURST_SIZE chunk packets of the upload are sent and
\* not resolved, and the chunk after a burst is not given to the command
\* channel before every chunk of the burst is resolved.
OneBurstInFlight ==
    /\ Cardinality(UnresolvedChunks) <= UPLOAD_BURST_SIZE
    /\ BurstsInTurn

(***************************************************************************)
(* Properties of the chunk-params handler (SpecChunk).                     *)
(***************************************************************************)
\* The main loop takes chunk-params of an upload that is in progress.
ActiveUploadParams ==
    /\ upload_chunk_params_rx # <<>>
    /\ last'.op = "chunk_params"
    /\ UploadsGet(Self, Head(upload_chunk_params_rx).id) # {}

\* min(chunk_size, maximum chunk payload) with the low three bits cleared,
\* of the chunk-params the main loop takes.
EffectiveChunkSize ==
    LET size == Min(Head(upload_chunk_params_rx).chunk_size,
                    TRANSFER_CHUNK_MAX_PAYLOAD_LENGTH)
    IN  size - (size % 8)

\* C21: on chunk-params for an active upload the handler fails with
\* ParameterOutOfRange exactly when the effective chunk size is less than
\* 24, and it builds the chunks and spawns their worker when that size is
\* 24 or more.
ChunkSizeAccepted ==
    [][ActiveUploadParams =>
         /\ (loop_result' = "ParameterOutOfRange") <=> (EffectiveChunkSize < 24)
         /\ EffectiveChunkSize >= 24 => Len(workers') = Len(workers) + 1]_vars

(***************************************************************************)
(* The order of ack_queue (SpecWrap).                                      *)
(***************************************************************************)
\* C30: the entries of ack_queue are in the order their packets were sent,
\* so an id allocated after the wrap to 0 comes after the ids allocated
\* before it.
AckQueueInSendOrder ==
    \A i, j \in 1..Len(ack_queue) :
        i < j => SendOrder(ack_queue[i].pkt.sender_packet_id)
                     < SendOrder(ack_queue[j].pkt.sender_packet_id)

(***************************************************************************)
(* Old and early packets at the wrap of the peer's ids (SpecEdge).         *)
(***************************************************************************)
\* How far id a is after id b in the sequence 0..0x7FFF.
IdsAfter(a, b) == (a + MAX_PACKET_ID + 1 - b) % (MAX_PACKET_ID + 1)

\* This step is handle_incoming_packet, given a packet of this session
\* without a control command, and it returns Ok.
SequencedPacketArrives ==
    /\ task = "main_loop"
    /\ task' = "main_loop"
    /\ last'.op = "packet"
    /\ last'.resp.session_id = session_id
    /\ last'.resp.control = "None"

\* The packet of this step is behind next_pkt_forward by less than half of
\* the id space: a retransmission of a packet that was forwarded.
ArrivesBehind ==
    /\ HasAtoms(last'.resp)
    /\ IdsAfter(next_pkt_forward, last'.resp.sender_packet_id)
           \in 1..(MAX_PACKET_ID \div 2)

\* The packet of this step is ahead of next_pkt_forward by less than half
\* of the id space.
ArrivesAhead ==
    /\ HasAtoms(last'.resp)
    /\ IdsAfter(last'.resp.sender_packet_id, next_pkt_forward)
           \in 1..(MAX_PACKET_ID \div 2)

\* The packet of this step has the id 0 and no atoms.
ArrivesUnsequenced ==
    last'.resp.sender_packet_id = 0 /\ ~HasAtoms(last'.resp)

SupportedVersion(v) == v.major = 2 /\ v.minor \in {30, 31}

\* The step is the state task handling a packet that ends with a Version
\* atom.
StateTaskSeesVersion ==
    /\ last'.op = "state_task"
    /\ state_task = "running"
    /\ tx # <<>>
    /\ Head(tx).atoms[Len(Head(tx).atoms)].kind = "Version"

KeysOf(table) == {x.id : x \in table}

\* The step is handle_queued_command for the request of a transfer.
TransferBegins ==
    /\ last'.op = "command"
    /\ cmd_rx # <<>>
    /\ Head(cmd_rx).kind \in {"FileDownload", "FileUpload"}

\* C25: no transfer id is the key of a record of two of the tables, and a
\* transfer that begins gets an id that no record has and leaves every
\* record where it is (two downloads: the second does not get the id of
\* the first, and the downloads table then has both).
TransferIdsDistinct ==
    /\ [](/\ KeysOf(downloads) \cap KeysOf(uploads) = {}
          /\ KeysOf(downloads) \cap KeysOf(finished_uploads) = {}
          /\ KeysOf(uploads) \cap KeysOf(finished_uploads) = {})
    /\ [][TransferBegins =>
            /\ downloads \subseteq downloads'
            /\ uploads \subseteq uploads'
            /\ finished_uploads' = finished_uploads
            /\ Cardinality(KeysOf(downloads') \cup KeysOf(uploads')
                               \cup KeysOf(finished_uploads'))
                   = Cardinality(KeysOf(downloads) \cup KeysOf(uploads)
                                     \cup KeysOf(finished_uploads)) + 1]_vars


(***************************************************************************)
(* Properties of downloads (SpecDown).                                     *)
(***************************************************************************)
\* The step is handle_incoming_packet for a packet of the peer's sequence
\* with an atom of this kind.
Arrives(kind) ==
    /\ last'.op = "packet"
    /\ HasAtoms(last'.resp)
    /\ last'.resp.atoms[1].kind = kind

\* The downloads the atom of that packet is for.
Addressed == DownloadsGet(Self, last'.resp.atoms[1].id)

\* What was sent into the channel of a download.
SentTo(snk, chan) == SelectSeq(snk.sent, LAMBDA x : x.tx = chan)

\* Someone has a Sender of the channel.
SinkOpen(chan) ==
    \/ \E d \in downloads : d.tx = chan
    \/ \E i \in 1..Len(error_tasks) : error_tasks[i].tx = chan

\* C24: the payload of a TransferChunk for a download goes into its
\* channel, behind what is there, and is added to bytes_received;
\* TransferCompleted removes the record, closes the channel and drops the
\* Arc of the lock; FileTransferError removes the record, drops the Arc
\* and has the error sent behind the chunks; the channel of a download
\* whose record is gone gets no chunk.
DownloadsDeliver ==
    /\ [][Arrives("TransferChunk") =>
            \A d \in Addressed :
                LET a == last'.resp.atoms[1]
                IN  d.tx \notin sink.gone =>
                      /\ sink'.sent = Append(sink.sent,
                             [tx |-> d.tx, item |-> <<"Ok", a.payload>>])
                      /\ downloads' = (downloads \ {d}) \cup
                             {[d EXCEPT
                                 !.bytes_received = @ + Len(a.payload),
                                 !.bytes_since_last_ack =
                                     @ + Len(a.payload)]}]_vars
    /\ [][Arrives("TransferCompleted") =>
            \A d \in Addressed :
                /\ downloads' = downloads \ {d}
                /\ ~SinkOpen(d.tx)'
                /\ sink' = sink
                /\ d.storage_lock \notin held']_vars
    /\ [][Arrives("FileTransferError") =>
            \A d \in Addressed :
                /\ downloads' = downloads \ {d}
                /\ error_tasks' = Append(error_tasks,
                       [tx |-> d.tx, code |-> last'.resp.atoms[1].code])
                /\ sink' = sink
                /\ d.storage_lock \notin held']_vars
    /\ [][last'.op = "error_task" =>
            \E i \in 1..Len(error_tasks) :
                \E chan \in {error_tasks[i].tx} :
                    /\ ~SinkOpen(chan)'
                    /\ chan \notin sink.gone =>
                           sink'.sent = Append(sink.sent,
                               [tx |-> chan,
                                item |-> <<"Err", error_tasks[i].code>>])]_vars
    /\ [][\A chan \in {1, 2} :
            (\A d \in downloads : d.tx # chan) =>
                \A i \in 1..Len(SentTo(sink', chan)) :
                    i > Len(SentTo(sink, chan)) =>
                        SentTo(sink', chan)[i].item[1] = "Err"]_vars

\* A download got a chunk and then the error of the peer, and its Arc of
\* the lock is dropped.
ErrorBehindChunk ==
    \E chan \in {1, 2} :
        /\ Len(SentTo(sink, chan)) = 2
        /\ SentTo(sink, chan)[1].item[1] = "Ok"
        /\ SentTo(sink, chan)[2].item = <<"Err", TransferErrorCode>>
        /\ <<chan, 1>> \notin held


(***************************************************************************)
(* Properties of the end of an upload (SpecUp).                            *)
(***************************************************************************)
\* How often the responder was signalled.
Signals(responder) ==
    Cardinality({k \in 1..Len(responses) : responses[k][1] = responder})

\* The packets sent for the first time that carry this atom.
Carrying(atom) ==
    {i \in 1..Len(wire) : /\ wire[i].atoms = <<atom>>
                          /\ "retransmission" \notin wire[i].flags}

\* The step handles the chunk-params of an active upload and takes the
\* last of its stream.
UploadDrains ==
    /\ last'.op = "chunk_params"
    /\ upload_chunk_params_rx # <<>>
    /\ \E u \in UploadsGet(Self, Head(upload_chunk_params_rx).id) :
         /\ u.buffer # <<>>
         /\ UploadsGet(Self, u.id)' = {}

\* C22: when the stream of an upload is built to its end, the worker is
\* given its chunks with one FinishFileDownload behind the last, and the
\* record goes from uploads to finished_uploads; a TransferCompleted for a
\* record of finished_uploads signals Ok to its responder, which is
\* signalled once only, removes the record and drops its Arc of the lock,
\* the unlock being left to the task of the drop when that was the last
\* Arc, and MediaPoolLock{lock: false} is sent only when no Arc is left; a
\* TransferCompleted for a record of uploads leaves record and responder
\* as they are.
UploadFinishes ==
    /\ [][UploadDrains =>
            \E u \in UploadsGet(Self, Head(upload_chunk_params_rx).id) :
                LET chunks == workers'[Len(workers')].chunks
                IN  /\ Len(workers') = Len(workers) + 1
                    /\ Len(chunks) >= 2
                    /\ chunks[Len(chunks)] = FinishFileDownload(u.id)
                    /\ \A i \in 1..(Len(chunks) - 1) :
                           chunks[i].kind = "TransferChunk"
                    /\ finished_uploads' = finished_uploads \cup
                           {[id |-> u.id, responder |-> u.responder,
                             storage_lock |-> u.storage_lock]}]_vars
    /\ [][Arrives("TransferCompleted") =>
            LET id == last'.resp.atoms[1].id
            IN  /\ \A f \in FinishedGet(Self, id) :
                      /\ responses' = Append(responses, <<f.responder, "Ok">>)
                      /\ finished_uploads' = finished_uploads \ {f}
                      /\ f.storage_lock \notin held'
                      /\ unlock_tasks' =
                             IF held' = {} THEN Append(unlock_tasks, 0)
                             ELSE unlock_tasks
                /\ \A u \in UploadsGet(Self, id) :
                      /\ responses' = responses
                      /\ uploads' = uploads
                      /\ held' = held]_vars
    /\ [](\A n \in {1, 2} : Signals(<<"upload", n>>) <= 1)
    /\ [](Carrying(MediaPoolLock(0, FALSE)) # {} => held = {})

\* The upload was given Ok, and the lock of the store is given back.
UploadDoneAndUnlocked ==
    /\ <<<<"upload", 1>>, "Ok">> \in {responses[k] : k \in 1..Len(responses)}
    /\ Carrying(MediaPoolLock(0, FALSE)) # {}


(***************************************************************************)
(* Properties of an upload whose chunks are lost (SpecUpload).             *)
(***************************************************************************)
\* A chunk of the upload was given up: its responder got Timeout.
ChunkTimedOut ==
    \E k \in 1..Len(responses) :
        responses[k][1][1] = "chunk" /\ responses[k][2] = "Timeout"

\* Every worker of the upload has returned.
WorkersReturned == \A w \in 1..Len(workers) : workers[w].pc = "done"

\* C23: upload_still_image returns when a chunk of the upload was never
\* acknowledged: once the chunk was given Timeout and the workers have
\* returned, while the session goes on, the responder of the upload has
\* its result and the Arc of the lock is dropped.
UploadReturns ==
    (ChunkTimedOut /\ WorkersReturned /\ task = "main_loop") =>
        /\ Signals(<<"upload", 1>>) = 1
        /\ <<1, 1>> \notin held


(***************************************************************************)
(* The packet codec (necromancer_protocol::packet and ::atom).  A datagram *)
(* is the flags and the length of its first word and the bytes that follow *)
(* the 12 bytes of headers; the four other words of the headers are copied *)
(* as they are and are left out.  A byte is a number in 0..255.            *)
(***************************************************************************)
HEADERS_LENGTH == 12

MAX_PACKET_LENGTH == 2047

\* AtemControl::LENGTH
AtemControl_LENGTH == 8

\* Atom::HEADERS_LENGTH
Atom_HEADERS_LENGTH == 8

\* Atom::MAX_COMMAND_LENGTH
Atom_MAX_COMMAND_LENGTH == MAX_PACKET_LENGTH - HEADERS_LENGTH

\* take_seek(n): at most the n bytes at the front.
Take(bytes, n) == SubSeq(bytes, 1, Min(n, Len(bytes)))

\* The bytes after the n at the front.
Drop(bytes, n) == SubSeq(bytes, n + 1, Len(bytes))

\* The big-endian u16 at the front.
U16At(bytes) == bytes[1] * 256 + bytes[2]

\* n bytes of padding, as they are written.
Padding(n) == [i \in 1..n |-> 0]

\* b"DCut"
DCut == <<68, 67, 117, 116>>

\* Payload, read from the bytes of an atom after its length and padding, the
\* magic first.  Cut reads me and 3 bytes of padding; a variant that fails
\* leaves the bytes to Unknown, which takes any magic and every byte after
\* it.
PayloadRead(bytes) ==
    IF Take(bytes, 4) = DCut /\ Len(bytes) >= 8
    THEN [kind |-> "Cut", magic |-> DCut, data |-> <<bytes[5]>>]
    ELSE [kind |-> "Unknown", magic |-> Take(bytes, 4),
          data |-> Drop(bytes, 4)]

\* Payload, written: the magic, then the fields.
PayloadWrite(payload) ==
    IF payload.kind = "Cut"
    THEN payload.magic \o payload.data \o Padding(3)
    ELSE payload.magic \o payload.data

\* Atom, read from bytes that hold all of it: the payload is read from the
\* length - 4 bytes after the length and its padding, and what the payload
\* leaves of them is skipped.
AtomRead(bytes) == PayloadRead(Take(Drop(bytes, 4), U16At(bytes) - 4))

\* Atom, written: the length is what was written, headers included.
AtomWrite(atom) ==
    LET payload == PayloadWrite(atom)
        length == 4 + Len(payload)
    IN  <<length \div 256, length % 256, 0, 0>> \o payload

\* Vec<Atom>, read with until_eof: atom after atom until the bytes end.  An
\* atom whose length is out of range fails the read.
RECURSIVE AtomsRead(_)
AtomsRead(bytes) ==
    IF bytes = <<>>
    THEN [ok |-> TRUE, atoms |-> <<>>]
    ELSE LET length == U16At(bytes)
             rest == AtomsRead(Drop(bytes, length))
         IN  IF length < Atom_HEADERS_LENGTH
                \/ length > Atom_MAX_COMMAND_LENGTH
                \/ ~rest.ok
             THEN [ok |-> FALSE, atoms |-> <<>>]
             ELSE [ok |-> TRUE, atoms |-> <<AtomRead(bytes)>> \o rest.atoms]

\* Vec<Atom>, written.
RECURSIVE AtomsWrite(_)
AtomsWrite(atoms) ==
    IF atoms = <<>> THEN <<>>
    ELSE AtomWrite(Head(atoms)) \o AtomsWrite(Tail(atoms))

\* AtemControl: the variants in the order of their magic, 1 to 5.
AtemControl ==
    <<"Connect", "ConnectAck", "ConnectNack", "Disconnect", "DisconnectAck">>

\* AtemControl, written and padded to 8 bytes.
AtemControlWrite(p) ==
    LET magic == CHOOSE c \in 1..Len(AtemControl) : AtemControl[c] = p.control
    IN  IF p.control = "ConnectAck"
        THEN <<magic, 0, p.control_arg \div 256, p.control_arg % 256>>
             \o Padding(4)
        ELSE <<magic>> \o Padding(7)

\* A read or a write that returned an error.
CodecError == [ok |-> FALSE, packet |-> NoPacket]

\* The pre_assert of AtemPacketPayload::Atom.
PreAssertAtom(control, length) == ~control /\ length > HEADERS_LENGTH

\* The pre_assert of AtemPacketPayload::Control.
PreAssertControl(control, length) ==
    control /\ length = HEADERS_LENGTH + AtemControl_LENGTH

\* A pre_assert that leaves the control flag out.
PreAssertNoneAnyFlags(control, length) == length = HEADERS_LENGTH

\* The pre_assert of AtemPacketPayload::None.
PreAssertNone(control, length) == ~control /\ length = HEADERS_LENGTH

\* AtemPacket::read: the length is at least 12, and the payload is the
\* first variant of AtemPacketPayload whose pre_assert holds and whose
\* read succeeds, read from the length - 12 bytes after the headers.
AtemPacketRead(d) ==
    LET control == "control" \in d.flags
        bytes == Take(d.body, d.length - HEADERS_LENGTH)
        atoms == AtomsRead(bytes)
    IN  IF d.length < HEADERS_LENGTH THEN CodecError
        ELSE IF PreAssertAtom(control, d.length) /\ atoms.ok
        THEN [ok |-> TRUE,
              packet |-> Packet(d.flags, 0, 0, 0, 0, "None", atoms.atoms)]
        ELSE IF /\ PreAssertControl(control, d.length)
                /\ bytes[1] \in 1..Len(AtemControl)
        THEN [ok |-> TRUE,
              packet |->
                  [Packet(d.flags, 0, 0, 0, 0, AtemControl[bytes[1]], <<>>)
                   EXCEPT !.control_arg =
                       IF AtemControl[bytes[1]] = "ConnectAck"
                       THEN U16At(Drop(bytes, 2)) ELSE 0]]
        ELSE IF PreAssertNone(control, d.length)
        THEN [ok |-> TRUE,
              packet |-> Packet(d.flags, 0, 0, 0, 0, "None", <<>>)]
        ELSE CodecError

\* A datagram: its flags, its length, and the bytes after the headers.
Datagram(flags, length, body) ==
    [flags |-> flags, length |-> length, body |-> body]

\* AtemPacket::write: the payload after the headers, then the first word
\* from self.flags and the count of the bytes written.  Atoms are refused
\* with the control flag, a control command without it, and a length
\* above 11 bits.
AtemPacketWrite(p) ==
    LET body == IF p.control # "None" THEN AtemControlWrite(p)
                ELSE AtomsWrite(p.atoms)
        length == HEADERS_LENGTH + Len(body)
    IN  IF \/ p.control # "None" /\ "control" \notin p.flags
           \/ p.atoms # <<>> /\ "control" \in p.flags
           \/ length > MAX_PACKET_LENGTH
        THEN [ok |-> FALSE, datagram |-> Datagram({}, 0, <<>>)]
        ELSE [ok |-> TRUE, datagram |-> Datagram(p.flags, length, body)]


(***************************************************************************)
(* The codec on its own: a datagram is read, and the packet it gave is     *)
(* written again.  The datagrams hold every byte that their length and the *)
(* lengths of their atoms declare.                                         *)
(***************************************************************************)
MaxAtoms == 2

\* A DCut atom declared with the given length: 12 is what the switcher
\* needs, and a longer one carries bytes after the padding.
CutAtom(length, me) ==
    <<0, length, 0, 0>> \o DCut \o <<me>> \o Padding(length - 9)

\* An atom of a magic that Payload does not know.
UnknownAtom(length) ==
    <<0, length, 0, 0>> \o <<88, 88, 88, 88>> \o [i \in 1..(length - 8) |-> i]

\* The atoms of the datagrams; the last declares a length below its own
\* headers.
WireAtoms ==
    {CutAtom(12, 1), CutAtom(16, 1), UnknownAtom(8), UnknownAtom(12),
     <<0, 4, 0, 0>>}

\* One to n atoms, one after the other.
RECURSIVE AtomBodies(_)
AtomBodies(n) ==
    IF n = 0 THEN {}
    ELSE WireAtoms
         \cup {a \o b : a \in WireAtoms, b \in AtomBodies(n - 1)}

\* The payloads of control packets: the five control codes, a code that
\* AtemControl does not know, and a ConnectAck with a session id.
ControlBodies ==
    {<<c>> \o Padding(7) : c \in 0..6} \cup {<<2, 0, 128, 1>> \o Padding(4)}

Datagrams ==
    {Datagram(flags, HEADERS_LENGTH + Len(body), body) :
        flags \in SUBSET {"ack"}, body \in {<<>>} \cup AtomBodies(MaxAtoms)}
    \cup {Datagram(flags \cup {"control"}, HEADERS_LENGTH + Len(body), body) :
            flags \in SUBSET {"ack"},
            body \in {<<>>} \cup WireAtoms \cup ControlBodies}
    \cup {Datagram(flags, length, <<>>) :
            flags \in SUBSET {"control", "ack"},
            length \in {0, HEADERS_LENGTH - 1}}

InitCodec ==
    /\ task = "new"
    /\ reconnect = FALSE
    /\ session_id = 0
    /\ initial_session_id = 0
    /\ rx_queue = <<>>
    /\ last_rx_time = 0
    /\ next_pkt_forward = 1
    /\ sender_packet_id = 1
    /\ ack_queue = <<>>
    /\ initialisation_complete = FALSE
    /\ disconnected = FALSE
    /\ timer = 0
    /\ connect_result = "pending"
    /\ loop_result = "None"
    /\ wire = <<>>
    /\ forwarded = <<>>
    /\ responses = <<>>
    /\ facade = "none"
    /\ cmd_rx = <<>>
    /\ selecting = TRUE
    /\ clock_tasks = {}
    /\ tx = <<>>
    /\ state_task = "none"
    /\ state = DefaultState
    /\ NoLocks
    /\ unlock_tasks = <<>>
    /\ uploads = {}
    /\ finished_uploads = {}
    /\ upload_chunk_params_rx = <<>>
    /\ workers = <<>>
    /\ downloads = {}
    /\ sink = NoSink
    /\ error_tasks = <<>>
    /\ rx_log = <<>>
    /\ budget = Budget(0, 0, 0, 0)
    /\ \E d \in Datagrams : last = Did("datagram", d)

\* The datagram is read.
ReadDatagram ==
    /\ last.op = "datagram"
    /\ last' = Did("read", [datagram |-> last.resp,
                            read |-> AtemPacketRead(last.resp)])
    /\ Commit(Self)
    /\ Untouched
    /\ UNCHANGED budget

\* The packet that was read is written.
WritePacket ==
    /\ last.op = "read"
    /\ last.resp.read.ok
    /\ last' = Did("write", [datagram |-> last.resp.datagram,
                             read |-> last.resp.read,
                             written |->
                                 AtemPacketWrite(last.resp.read.packet)])
    /\ Commit(Self)
    /\ Untouched
    /\ UNCHANGED budget

NextCodec == ReadDatagram \/ WritePacket

SpecCodec == InitCodec /\ [][NextCodec]_vars


(***************************************************************************)
(* C27.  What AtemPacket::read makes of a datagram follows from the        *)
(* control flag and the length, and from the payload where a payload is    *)
(* read.                                                                   *)
(***************************************************************************)
\* The lengths that the atoms of bytes declare, one after the other, up to
\* the first that is out of range.
RECURSIVE DeclaredLengths(_)
DeclaredLengths(bytes) ==
    IF bytes = <<>> THEN <<>>
    ELSE IF U16At(bytes) \in Atom_HEADERS_LENGTH..Atom_MAX_COMMAND_LENGTH
    THEN <<U16At(bytes)>> \o DeclaredLengths(Drop(bytes, U16At(bytes)))
    ELSE <<0>>

RECURSIVE SumOf(_)
SumOf(seq) == IF seq = <<>> THEN 0 ELSE Head(seq) + SumOf(Tail(seq))

\* The datagram that was read.
TheDatagram == last.resp.datagram

\* Every atom of the datagram was read from as many bytes as the atom that
\* was read of it is written to; a control command has no atoms.
WrittenAsDeclared ==
    LET atoms == last.resp.read.packet.atoms
    IN  \/ last.resp.read.packet.control # "None"
        \/ DeclaredLengths(TheDatagram.body)
               = [i \in 1..Len(atoms) |-> Len(AtomWrite(atoms[i]))]

TransferChunksOf(p) == SelectSeq(p.atoms, LAMBDA a : a.kind = "TransferChunk")

\* What a step sent to the peer.
NewlySent == SubSeq(wire', Len(wire) + 1, Len(wire'))

\* What a step handed to the state mirror.
NewlyForwarded == SubSeq(forwarded', Len(forwarded) + 1, Len(forwarded'))

\* The packets of seq that were given a sender_packet_id, each as it was
\* sent first.
Sequenced(seq) ==
    SelectSeq(seq, LAMBDA p : p.sender_packet_id # 0
                              /\ "retransmission" \notin p.flags)

\* C29: the step that forwards a packet of the peer with the ack flag sends
\* one packet, a response whose acked_packet_id is the id of the packet,
\* and the packet is with the state mirror; a packet without the flag is
\* answered with nothing.  The response of a packet without TransferChunk
\* has the sender_packet_id 0 and no atoms, and the counter stays; the
\* response of a packet with TransferChunk atoms has one TransferAck for
\* each, in their order, and the ack flag, and takes its sender_packet_id
\* from the counter of the commands, which moves on by one.  No two
\* packets that were given a sender_packet_id have the same.
AckOfForwarded ==
    [][last'.op = "packet" =>
          LET resp   == last'.resp
              chunks == TransferChunksOf(resp)
              sent   == NewlySent
              handed == NewlyForwarded
          IN  /\ Len(handed) = 1
              /\ handed[1].sender_packet_id = resp.sender_packet_id
              /\ "ack" \notin resp.flags =>
                     sent = <<>> /\ sender_packet_id' = sender_packet_id
              /\ "ack" \in resp.flags =>
                     /\ Len(sent) = 1
                     /\ "response" \in sent[1].flags
                     /\ sent[1].acked_packet_id = resp.sender_packet_id
                     /\ sent[1].session_id = session_id
                     /\ IF chunks = <<>>
                        THEN /\ sent[1].sender_packet_id = 0
                             /\ sent[1].atoms = <<>>
                             /\ "ack" \notin sent[1].flags
                             /\ sender_packet_id' = sender_packet_id
                        ELSE /\ sent[1].atoms =
                                    [i \in 1..Len(chunks) |->
                                        Atom("TransferAck", chunks[i].id)]
                             /\ "ack" \in sent[1].flags
                             /\ sent[1].sender_packet_id = sender_packet_id
                             /\ sender_packet_id' =
                                    NextSenderPacketId(sender_packet_id)
              /\ \A i, j \in 1..Len(Sequenced(wire')) :
                     i # j => Sequenced(wire')[i].sender_packet_id
                                  # Sequenced(wire')[j].sender_packet_id]_vars

\* A command was sent, then the response of a packet with two chunks, which
\* has two TransferAck atoms and the id after the command's, and the
\* response of a packet without chunks, which has the id 0.
ChunksAcknowledgedInSequence ==
    \E i, j, k \in 1..Len(wire) :
        /\ i < j
        /\ "response" \notin wire[i].flags
        /\ wire[i].sender_packet_id # 0
        /\ "response" \in wire[j].flags
        /\ Len(wire[j].atoms) = 2
        /\ wire[j].sender_packet_id = wire[i].sender_packet_id + 1
        /\ "response" \in wire[k].flags
        /\ wire[k].sender_packet_id = 0


(***************************************************************************)
(* C31.  The reorder buffer (SpecRx).                                      *)
(***************************************************************************)
\* C31: rx_queue is sorted by sender_packet_id, each id above the one
\* before it, so no two of its packets have the same id, and it never
\* holds more than MAX_RX_QUEUE_LENGTH packets.
RxQueueSortedAndBounded ==
    /\ \A i \in 1..(Len(rx_queue) - 1) :
           rx_queue[i].sender_packet_id < rx_queue[i + 1].sender_packet_id
    /\ Len(rx_queue) <= MAX_RX_QUEUE_LENGTH

\* A packet has been put into a buffer of MAX_RX_QUEUE_LENGTH - 1 packets,
\* which is full now, and the session goes on.
RxQueueFilled ==
    /\ last.op = "packet"
    /\ task = "main_loop"
    /\ Len(rx_queue) = MAX_RX_QUEUE_LENGTH
    /\ rx_queue[Len(rx_queue)] = last.resp


(***************************************************************************)
(* C32.  The limit of ack_queue (SpecFull).                                *)
(***************************************************************************)
\* This step sends a command or a probe while ack_queue is full.
SentWhileFull ==
    /\ Len(ack_queue) >= MAX_ACK_QUEUE_LENGTH
    /\ last'.op \in {"command", "tick"}
    /\ sender_packet_id' # sender_packet_id

\* The probes whose responder was dropped with ack_queue, and whose task
\* has seen that.
ClearedProbes ==
    {n \in 1..budget.ticks :
        /\ n \notin clock_tasks
        /\ "Dropped" \in ResultsOf(Self, <<"clock", n>>)}

\* C32: ack_queue never holds more than MAX_ACK_QUEUE_LENGTH entries; a
\* command that is sent while it holds that many finds it cleared, so that
\* the command is its only entry afterwards, and the responder of every
\* entry that was cleared is dropped, which its caller takes as Timeout;
\* and when the responder of a probe was dropped so, the main loop ends
\* with Timeout.
FullAckQueueCleared ==
    /\ [](Len(ack_queue) <= MAX_ACK_QUEUE_LENGTH)
    /\ [][SentWhileFull =>
              /\ Len(ack_queue') = 1
              /\ \A i \in 1..Len(ack_queue) :
                     ack_queue[i].responder # NoResponder =>
                         \E k \in 1..Len(responses') :
                             responses'[k]
                                 = <<ack_queue[i].responder, "Dropped">>]_vars
    /\ [](ClearedProbes # {} => task # "main_loop" /\ loop_result = "Timeout")


(***************************************************************************)
(* The latch of a storage lock.                                            *)
(***************************************************************************)
\* The atoms a step handed to the handlers: those of the packet that came,
\* when the step forwarded it.
Delivered ==
    IF /\ last'.op = "packet"
       /\ \E i \in 1..Len(NewlyForwarded) :
             NewlyForwarded[i].sender_packet_id = last'.resp.sender_packet_id
    THEN last'.resp.atoms
    ELSE <<>>

\* A step handed an atom of that kind and store to the handlers.
DeliveredLockAtom(kind, store_id) ==
    \E j \in 1..Len(Delivered) :
       Delivered[j].kind = kind /\ Delivered[j].id = store_id

\* A step handed MediaPoolLockStatus { store_id, locked: false } on.
DeliveredUnlocked(store_id) ==
    \E j \in 1..Len(Delivered) :
       /\ Delivered[j].kind = "MediaPoolLockStatus"
       /\ Delivered[j].id = store_id
       /\ ~Delivered[j].locked

\* Waiters of a StorageLock get Ok no earlier than LockObtained of its store
\* was delivered while it was alive.
ReleasedByLockObtained ==
    \A h \in DOMAIN locks' :
       /\ AwaitAvailability(Self', h) = "Ok"
       /\ h \in DOMAIN locks => AwaitAvailability(Self, h) # "Ok"
       => /\ h \in Alive(Self)
          /\ DeliveredLockAtom("LockObtained", locks[h].store_id)

\* When the peer reports a store unlocked, the waiters of the live
\* StorageLocks of that store get ChannelUnavailable.
FailedByUnlocked ==
    \A h \in Alive(Self) :
       DeliveredUnlocked(locks[h].store_id)
       => AwaitAvailability(Self', h) = "ChannelUnavailable"

\* Waiters that got ChannelUnavailable get it ever after.
StaysUnavailable ==
    \A h \in DOMAIN locks :
       AwaitAvailability(Self, h) = "ChannelUnavailable"
       => AwaitAvailability(Self', h) = "ChannelUnavailable"

\* C33: a waiter of a lock handle is released with success only by a
\* LockObtained of the handle's store id that is delivered while the handle
\* is alive, never by that of another store id; and once
\* MediaPoolLockStatus { locked: false } of the store id is delivered,
\* every pending and every later waiter of a live handle of that store
\* fails with ChannelUnavailable.
LatchFollowsPeer ==
    /\ [][ReleasedByLockObtained]_vars
    /\ [][FailedByUnlocked]_vars
    /\ [][StaysUnavailable]_vars


(***************************************************************************)
(* Transfer atoms that meet no transfer.                                   *)
(***************************************************************************)
\* The id is in none of downloads, uploads and finished_uploads.
InNoTransferTable(id) ==
    /\ DownloadsGet(Self, id) = {}
    /\ UploadsGet(Self, id) = {}
    /\ FinishedGet(Self, id) = {}

\* The atom meets no transfer: it is looked up where there is no entry of
\* its id.
MeetsNoTransfer(a) ==
    \/ a.kind \in {"TransferCompleted", "FileTransferError"}
       /\ InNoTransferTable(a.id)
    \/ a.kind = "TransferChunk" /\ DownloadsGet(Self, a.id) = {}
    \/ a.kind = "FileTransferChunkParams" /\ UploadsGet(Self, a.id) = {}

\* A step handed such an atom to its handler: as the packet is forwarded,
\* or, for chunk-params, as the main loop takes it from its channel.
StrayHandled ==
    \/ \E j \in 1..Len(Delivered) : MeetsNoTransfer(Delivered[j])
    \/ /\ last'.op = "chunk_params"
       /\ MeetsNoTransfer(Head(upload_chunk_params_rx))

\* The kinds of the atoms of a transfer.
TransferAtomKinds ==
    {"SetupFileDownload", "SetupFileUpload", "TransferChunk", "TransferAck",
     "FinishFileDownload", "MediaPoolLock"}

\* The step left the transfers, the locks and the responders alone, sent
\* no atom of a transfer, and the session goes on.
StrayIgnored ==
    /\ UNCHANGED <<downloads, uploads, finished_uploads, locks, held,
                   owned_storage_locks, responses, sink, error_tasks,
                   unlock_tasks, workers>>
    /\ \A i \in 1..Len(NewlySent) : \A j \in 1..Len(NewlySent[i].atoms) :
          NewlySent[i].atoms[j].kind \notin TransferAtomKinds
    /\ task' = "main_loop"

\* C34: TransferCompleted or FileTransferError of an id that is in none of
\* the transfer tables, TransferChunk of an id with no download and
\* chunk-params of an id with no upload leave the transfer maps, the lock
\* handles and the responders as they are, send no atom of a transfer and
\* do not end the session.
StrayAtomsIgnored == [][StrayHandled => StrayIgnored]_vars


(***************************************************************************)
(* The MediaPoolLock atoms of a store, in the order they are sent.         *)
(***************************************************************************)
\* The packets sent with a MediaPoolLock of the store, each as it was sent
\* first.
LockPacketsSent(store_id) ==
    SelectSeq(Sequenced(wire),
              LAMBDA p : \E j \in 1..Len(p.atoms) :
                            /\ p.atoms[j].kind = "MediaPoolLock"
                            /\ p.atoms[j].id = store_id)

\* The lock field of the MediaPoolLock of such a packet.
LockFieldOf(p) ==
    LET j == CHOOSE k \in 1..Len(p.atoms) : p.atoms[k].kind = "MediaPoolLock"
    IN  p.atoms[j].lock

\* C35: the MediaPoolLock atoms sent for a store alternate lock=true,
\* lock=false, beginning with lock=true, so that the atom sent last for
\* the store of a live handle is never lock=false.
LockAtomsAlternate ==
    \A store_id \in {0} :
       /\ \A i \in 1..Len(LockPacketsSent(store_id)) :
             LockFieldOf(LockPacketsSent(store_id)[i]) = (i % 2 = 1)
       /\ (\E h \in Alive(Self) : locks[h].store_id = store_id)
             /\ LockPacketsSent(store_id) # <<>>
          => LockFieldOf(LockPacketsSent(store_id)[Len(LockPacketsSent(store_id))])


(***************************************************************************)
(* The channel of the chunk-params.                                        *)
(***************************************************************************)
\* C36: the session task never waits inside the handling of a packet for
\* room in the channel of the chunk-params, which only its own main loop
\* could make, however many FileTransferChunkParams are forwarded before
\* the loop takes one.
NeverBlockedInHandler == task # "blocked"


(***************************************************************************)
(* The session id in the main loop.                                        *)
(***************************************************************************)
\* C37: whenever the main loop can handle a packet, session_id has its
\* high bit set, in the first session and in those that follow failed and
\* successful reconnections, so that the assertion at the top of
\* handle_incoming_packet does not fire.
SessionIdEstablished ==
    task = "main_loop" => session_id >= SESSION_HIGH_BIT

\* A packet was handled in the session of a second or later reconnection.
PacketAfterReconnect ==
    /\ last.op = "packet"
    /\ budget.connects > 2
    /\ last.resp.session_id = session_id
    /\ session_id >= SESSION_HIGH_BIT


(***************************************************************************)
(* The chunks of an upload, round by round (SpecRounds).                   *)
(***************************************************************************)
\* The buffer of the upload the chunk-params are for, before the round.
BufferBefore ==
    (CHOOSE u \in UploadsGet(Self, Head(upload_chunk_params_rx).id) : TRUE).buffer

\* The atoms the round has built: those of the worker it spawned.
RoundAtoms ==
    IF Len(workers') = Len(workers) + 1
    THEN workers'[Len(workers')].chunks
    ELSE <<>>

\* The TransferChunk atoms among them.
RoundChunks == SelectSeq(RoundAtoms, LAMBDA a : a.kind = "TransferChunk")

RECURSIVE PayloadsOf(_)
\* The payloads of the chunks, one after the other.
PayloadsOf(chunks) ==
    IF chunks = <<>> THEN <<>>
    ELSE Head(chunks).payload \o PayloadsOf(Tail(chunks))

RECURSIVE Flatten(_)
\* The words of a buffer as bytes.
Flatten(buffer) ==
    IF buffer = <<>> THEN <<>> ELSE Head(buffer) \o Flatten(Tail(buffer))

\* The round took the chunks from the front of the buffer, in order: the
\* buffer after it is rest.
TakenFromFront(rest) ==
    PayloadsOf(RoundChunks) \o Flatten(rest) = Flatten(BufferBefore)

\* The FinishFileDownload atoms that were built for the workers.
FinishAtoms ==
    UNION {{<<w, k>> : k \in {j \in 1..Len(workers[w].chunks) :
                                 workers[w].chunks[j].kind = "FinishFileDownload"}} :
              w \in 1..Len(workers)}

\* What a round of an upload in progress does, when the handler returns
\* Ok.
RoundBuilt ==
    /\ Len(workers') = Len(workers) + 1
    /\ \E id \in {Head(upload_chunk_params_rx).id} :
       \E rest \in IF {u \in uploads' : u.id = id} = {} THEN {<<>>}
                    ELSE {u.buffer : u \in {v \in uploads' : v.id = id}} :
          /\ TakenFromFront(rest)
          /\ rest = <<>> <=> {u \in uploads' : u.id = id} = {}
          /\ IF rest = <<>>
             THEN /\ RoundAtoms # <<>>
                  /\ RoundAtoms[Len(RoundAtoms)] = FinishFileDownload(id)
                  /\ Len(RoundAtoms) = Len(RoundChunks) + 1
             ELSE RoundAtoms = RoundChunks
    /\ \A i \in 1..Len(RoundChunks) :
          /\ Len(RoundChunks[i].payload) > 0
          /\ Len(RoundChunks[i].payload) % 8 = 0
          /\ Len(RoundChunks[i].payload) <= EffectiveChunkSize
    /\ Len(RoundChunks) <= Head(upload_chunk_params_rx).chunk_count

\* C38: in every round of an upload the chunks built are the front of what
\* is left of the stream, in order, so that all rounds together give the
\* stream; every chunk is not empty, a multiple of 8 bytes and no longer
\* than the effective chunk size; a round builds at most chunk_count
\* chunks; and FinishFileDownload is built once, after the last chunk, in
\* the round that empties the buffer.
ChunksReproduceStream ==
    /\ [][ActiveUploadParams /\ task' = "main_loop" => RoundBuilt]_vars
    /\ [](\A p, q \in FinishAtoms :
             workers[p[1]].id = workers[q[1]].id => p = q)
    /\ [](\A p \in FinishAtoms : UploadsGet(Self, workers[p[1]].id) = {})

\* The upload took two rounds with a chunk each, and is finished.
UploadedInRounds ==
    /\ Len(workers) = 2
    /\ workers[1].chunks # <<>>
    /\ workers[1].chunks[1].kind = "TransferChunk"
    /\ Len(workers[2].chunks) = 2
    /\ workers[2].chunks[1].kind = "TransferChunk"
    /\ workers[2].chunks[2].kind = "FinishFileDownload"
    /\ uploads = {}

(***************************************************************************)
(* The health check of a session whose peer is silent.                     *)
(***************************************************************************)
\* MAX_RX_QUEUE_TIME has passed since a packet was forwarded.
NothingForwardedOfLate == last_rx_time >= Quanta(MAX_RX_QUEUE_TIME)

NewConnects ==
    {i \in 1..Len(NewlySent) : NewlySent[i].control = "Connect"}

=============================================================================
